---- MODULE Spec2Model ----
(***************************************************************************)
(* FoodieBot backend: the interest-scoring engine of                       *)
(* backend/conversation_service.py and the dietary filter, ranker and      *)
(* fallback of backend/recommendation_engine.py.                           *)
(*                                                                         *)
(* Text is modelled by TLA+ strings; keyword detection is Python's         *)
(* substring test `kw in text`.  Money is in whole dollars.  Scores of the *)
(* ranker are kept in hundredths (3000 stands for 30.00), which is exact   *)
(* for the weights 0.4/0.2/0.15/0.15/0.05/0.05 over integer sub-scores.    *)
(* ORM entities carry the attributes the service code reads and writes.    *)
(***************************************************************************)
EXTENDS Integers, Sequences, FiniteSets, TLC

\* Python None where a string is expected, and an unset numeric value
None == "<None>"
NULL == -1

(***************************************************************************)
(* Python string primitives                                                *)
(***************************************************************************)

\* Python: kw in text
Contains(kw, text) ==
    \E i \in 1..(Len(text) - Len(kw) + 1) : SubSeq(text, i, i + Len(kw) - 1) = kw

\* the lower-case letter of each upper-case ASCII letter
LowerOfUpper ==
    [A |-> "a", B |-> "b", C |-> "c", D |-> "d", E |-> "e", F |-> "f", G |-> "g",
     H |-> "h", I |-> "i", J |-> "j", K |-> "k", L |-> "l", M |-> "m", N |-> "n",
     O |-> "o", P |-> "p", Q |-> "q", R |-> "r", S |-> "s", T |-> "t", U |-> "u",
     V |-> "v", W |-> "w", X |-> "x", Y |-> "y", Z |-> "z"]

LowerChar(c) == IF c \in DOMAIN LowerOfUpper THEN LowerOfUpper[c] ELSE c

\* Python: s.lower()
RECURSIVE Lower(_)
Lower(s) ==
    IF Len(s) = 0 THEN ""
    ELSE LowerChar(SubSeq(s, 1, 1)) \o Lower(SubSeq(s, 2, Len(s)))

\* Python: s.replace(old, new), leftmost non-overlapping occurrences
RECURSIVE Replace(_, _, _)
Replace(s, old, new) ==
    IF Len(s) < Len(old) THEN s
    ELSE IF SubSeq(s, 1, Len(old)) = old
         THEN new \o Replace(SubSeq(s, Len(old) + 1, Len(s)), old, new)
         ELSE SubSeq(s, 1, 1) \o Replace(SubSeq(s, 2, Len(s)), old, new)

\* Python: s.strip() (spaces only occur as whitespace here)
RECURSIVE Strip(_)
Strip(s) ==
    IF Len(s) > 0 /\ SubSeq(s, 1, 1) = " " THEN Strip(SubSeq(s, 2, Len(s)))
    ELSE IF Len(s) > 0 /\ SubSeq(s, Len(s), Len(s)) = " "
         THEN Strip(SubSeq(s, 1, Len(s) - 1))
         ELSE s

\* Python: sep.join(list)
RECURSIVE Join(_, _)
Join(sep, list) ==
    IF Len(list) = 0 THEN ""
    ELSE IF Len(list) = 1 THEN list[1]
         ELSE list[1] \o sep \o Join(sep, Tail(list))

Digits == "0123456789"

IsDigit(c) == \E i \in 1..10 : SubSeq(Digits, i, i) = c

DigitVal(c) == (CHOOSE i \in 1..10 : SubSeq(Digits, i, i) = c) - 1

\* int(s) for a string of decimal digits
RECURSIVE ParseNat(_)
ParseNat(s) ==
    IF Len(s) = 0 THEN 0
    ELSE 10 * ParseNat(SubSeq(s, 1, Len(s) - 1)) + DigitVal(SubSeq(s, Len(s), Len(s)))

\* str(n) for a natural number
RECURSIVE NatToStr(_)
NatToStr(n) ==
    IF n < 10 THEN SubSeq(Digits, n + 1, n + 1)
    ELSE NatToStr(n \div 10) \o SubSeq(Digits, (n % 10) + 1, (n % 10) + 1)

\* str(float(n)) for a whole number n: "10.0"
FormatFloat(n) == NatToStr(n) \o ".0"

IsDigitString(s) == Len(s) > 0 /\ \A i \in 1..Len(s) : IsDigit(SubSeq(s, i, i))

\* float(s) for "<digits>" or "<digits>.<zeros>": the whole number, else NULL
\* (Python raises ValueError on any other text met here)
ParseFloat(s) ==
    IF IsDigitString(s) THEN ParseNat(s)
    ELSE IF \E d \in 1..Len(s) :
                /\ SubSeq(s, d, d) = "."
                /\ IsDigitString(SubSeq(s, 1, d - 1))
                /\ \A j \in (d + 1)..Len(s) : SubSeq(s, j, j) = "0"
         THEN LET d == CHOOSE e \in 1..Len(s) : SubSeq(s, e, e) = "."
              IN  ParseNat(SubSeq(s, 1, d - 1))
         ELSE NULL

\* the maximal run of digits of text starting at position i
RECURSIVE DigitRun(_, _)
DigitRun(text, i) ==
    IF i <= Len(text) /\ IsDigit(SubSeq(text, i, i))
    THEN SubSeq(text, i, i) \o DigitRun(text, i + 1)
    ELSE ""

\* re.search(prefix + r'\$?(\d+)', text) when optDollar, and
\* re.search(prefix + r'(\d+)', text) otherwise: group(1) of the leftmost
\* match, or None
MatchStart(prefix, optDollar, text, i) ==
    /\ i + Len(prefix) - 1 <= Len(text)
    /\ SubSeq(text, i, i + Len(prefix) - 1) = prefix
    /\ LET j == i + Len(prefix)
       IN  \/ DigitRun(text, j) # ""
           \/ /\ optDollar
              /\ j <= Len(text)
              /\ SubSeq(text, j, j) = "$"
              /\ DigitRun(text, j + 1) # ""

RegexSearch(prefix, optDollar, text) ==
    IF \E i \in 1..Len(text) : MatchStart(prefix, optDollar, text, i)
    THEN LET i == CHOOSE k \in 1..Len(text) :
                      /\ MatchStart(prefix, optDollar, text, k)
                      /\ \A m \in 1..(k - 1) : ~MatchStart(prefix, optDollar, text, m)
             j == i + Len(prefix)
         IN  IF optDollar /\ j <= Len(text) /\ SubSeq(text, j, j) = "$"
             THEN DigitRun(text, j + 1)
             ELSE DigitRun(text, j)
    ELSE None

\* any(kw in text for kw in keywords)
AnyIn(keywords, text) == \E i \in DOMAIN keywords : Contains(keywords[i], text)

\* the number of keywords of the list that occur in text
CountIn(keywords, text) ==
    Cardinality({i \in DOMAIN keywords : Contains(keywords[i], text)})

\* [kw for kw in keywords if kw in text]
RECURSIVE KeywordsIn(_, _)
KeywordsIn(keywords, text) ==
    IF Len(keywords) = 0 THEN <<>>
    ELSE (IF Contains(Head(keywords), text) THEN <<Head(keywords)>> ELSE <<>>)
         \o KeywordsIn(Tail(keywords), text)

\* Python: x in list
InList(x, list) == \E i \in DOMAIN list : list[i] = x

\* for x in items: if x not in list: list.append(x)
RECURSIVE AppendMissing(_, _)
AppendMissing(list, items) ==
    IF Len(items) = 0 THEN list
    ELSE AppendMissing(IF InList(Head(items), list) THEN list
                       ELSE Append(list, Head(items)),
                       Tail(items))

\* [tag.lower() for tag in tags]
LowerAll(tags) == [i \in DOMAIN tags |-> Lower(tags[i])]

Max(a, b) == IF a >= b THEN a ELSE b
Min(a, b) == IF a <= b THEN a ELSE b

(***************************************************************************)
(* ConversationService: tables of __init__                                 *)
(***************************************************************************)

ENGAGEMENT_FACTORS ==
    [specific_preferences |-> 15, dietary_restrictions |-> 10, budget_mention |-> 5,
     mood_indication |-> 20, question_asking |-> 10, enthusiasm_words |-> 8,
     price_inquiry |-> 25, order_intent |-> 30]

NEGATIVE_FACTORS ==
    [hesitation |-> -10, budget_concern |-> -15, dietary_conflict |-> -20,
     rejection |-> -25, delay_response |-> -5]

specific_preference_keywords ==
    <<"spicy", "mild", "hot", "korean", "mexican", "italian", "chinese",
      "burger", "pizza", "taco", "salad", "chicken", "beef", "vegetarian",
      "vegan", "crispy", "juicy", "creamy", "crunchy", "sweet", "salty">>

dietary_keywords ==
    <<"vegetarian", "vegan", "gluten-free", "dairy-free", "keto", "low-carb",
      "halal", "kosher", "allergic", "allergy", "no dairy", "no gluten">>

mood_keywords ==
    <<"adventurous", "comfort", "healthy", "indulgent", "quick", "fancy",
      "feeling", "mood", "craving", "want something", "in the mood for">>

enthusiasm_keywords ==
    <<"amazing", "perfect", "love", "awesome", "fantastic", "great",
      "excellent", "wonderful", "delicious", "yummy", "sounds good">>

hesitation_keywords ==
    <<"maybe", "not sure", "uncertain", "hmm", "i think", "perhaps",
      "possibly", "might", "could be", "not really sure">>

budget_concern_keywords ==
    <<"too expensive", "too much", "costly", "pricey", "expensive",
      "cheap", "affordable", "budget", "money">>

question_keywords ==
    <<"what", "how", "when", "where", "why", "which", "can you",
      "do you have", "is it", "does it", "spice level", "ingredients">>

order_intent_keywords ==
    <<"i'll take", "add to cart", "order", "get me", "i want that",
      "sounds perfect", "i'll have", "give me", "let's go with">>

\* budget_patterns of _calculate_interest_score_change: the literal prefix
\* of each pattern and whether `\$?` follows it (the last pattern is `\$(\d+)`)
budget_patterns ==
    <<[prefix |-> "under ", optDollar |-> TRUE],
      [prefix |-> "below ", optDollar |-> TRUE],
      [prefix |-> "less than ", optDollar |-> TRUE],
      [prefix |-> "around ", optDollar |-> TRUE],
      [prefix |-> "about ", optDollar |-> TRUE],
      [prefix |-> "$", optDollar |-> FALSE]>>

price_inquiry_patterns ==
    <<"how much", "what does it cost", "price", "cost", "expensive",
      "how much is", "what's the price">>

rejection_patterns ==
    <<"i don't like", "not interested", "no thanks", "don't want",
      "hate", "dislike", "not for me", "pass">>

\* mood_map of _extract_preferences, in dict order
mood_map ==
    <<[mood |-> "adventurous", keywords |-> <<"adventurous", "adventure", "try something new">>],
      [mood |-> "comfort", keywords |-> <<"comfort", "cozy", "familiar">>],
      [mood |-> "healthy", keywords |-> <<"healthy", "light", "fresh">>],
      [mood |-> "indulgent", keywords |-> <<"indulgent", "rich", "treat myself">>],
      [mood |-> "quick", keywords |-> <<"quick", "fast", "hurry">>],
      [mood |-> "fancy", keywords |-> <<"fancy", "special", "gourmet">>]>>

(***************************************************************************)
(* Lexical signal detection of _calculate_interest_score_change            *)
(***************************************************************************)

specific_prefs_found(message_lower) == CountIn(specific_preference_keywords, message_lower)

dietary_found(message_lower) == AnyIn(dietary_keywords, message_lower)

budget_mentioned(message_lower) ==
    \E i \in DOMAIN budget_patterns :
        RegexSearch(budget_patterns[i].prefix, budget_patterns[i].optDollar, message_lower) # None

mood_found(message_lower) == AnyIn(mood_keywords, message_lower)

\* question_found or '?' in message
question_found(message, message_lower) ==
    AnyIn(question_keywords, message_lower) \/ Contains("?", message)

enthusiasm_found(message_lower) == CountIn(enthusiasm_keywords, message_lower)

price_inquiry(message_lower) == AnyIn(price_inquiry_patterns, message_lower)

order_intent(message_lower) == AnyIn(order_intent_keywords, message_lower)

hesitation_found(message_lower) == AnyIn(hesitation_keywords, message_lower)

budget_concern(message_lower) ==
    \E i \in DOMAIN budget_concern_keywords :
        /\ Contains(budget_concern_keywords[i], message_lower)
        /\ (Contains("too", message_lower) \/ Contains("expensive", message_lower))

rejection_found(message_lower) == AnyIn(rejection_patterns, message_lower)

\* a factor step that adds the weight once for every step, triggered or not
AddFactor_untested(acc, flag, w, text) ==
    [score_change |-> acc.score_change + w,
     engagement_factors |-> Append(acc.engagement_factors, text)]

\* one `if flag: score_change += w; engagement_factors.append(text)` step
AddFactor(acc, flag, w, text) ==
    IF flag
    THEN [score_change |-> acc.score_change + w,
          engagement_factors |-> Append(acc.engagement_factors, text)]
    ELSE acc

\* ConversationService._calculate_interest_score_change: the raw delta and
\* the factor descriptions, in the order the code tests the factors
calculate_interest_score_change(message) ==
    LET ml == Lower(message)
        a0 == [score_change |-> 0, engagement_factors |-> <<>>]
        a1 == AddFactor(a0, specific_prefs_found(ml) > 0,
                        ENGAGEMENT_FACTORS.specific_preferences,
                        "Specific preferences mentioned ("
                            \o NatToStr(specific_prefs_found(ml)) \o " detected)")
        a2 == AddFactor(a1, dietary_found(ml), ENGAGEMENT_FACTORS.dietary_restrictions,
                        "Dietary restrictions mentioned")
        a3 == AddFactor(a2, budget_mentioned(ml), ENGAGEMENT_FACTORS.budget_mention,
                        "Budget mentioned")
        a4 == AddFactor(a3, mood_found(ml), ENGAGEMENT_FACTORS.mood_indication,
                        "Mood/feeling indicated")
        a5 == AddFactor(a4, question_found(message, ml), ENGAGEMENT_FACTORS.question_asking,
                        "Question asked")
        a6 == AddFactor(a5, enthusiasm_found(ml) > 0, ENGAGEMENT_FACTORS.enthusiasm_words,
                        "Enthusiasm detected ("
                            \o NatToStr(enthusiasm_found(ml)) \o " positive words)")
        a7 == AddFactor(a6, price_inquiry(ml), ENGAGEMENT_FACTORS.price_inquiry,
                        "Price inquiry detected")
        a8 == AddFactor(a7, order_intent(ml), ENGAGEMENT_FACTORS.order_intent,
                        "Order intent detected")
        a9 == AddFactor(a8, hesitation_found(ml), NEGATIVE_FACTORS.hesitation,
                        "Hesitation detected (-10)")
        a10 == AddFactor(a9, budget_concern(ml), NEGATIVE_FACTORS.budget_concern,
                         "Budget concern detected (-15)")
        a11 == AddFactor(a10, rejection_found(ml), NEGATIVE_FACTORS.rejection,
                         "Rejection detected (-25)")
    IN  a11

\* ConversationService._extract_preferences
ExtractMoods(message_lower) ==
    LET Pick[i \in 0..Len(mood_map)] ==
            IF i = 0 THEN <<>>
            ELSE IF AnyIn(mood_map[i].keywords, message_lower)
                 THEN Append(Pick[i - 1], mood_map[i].mood)
                 ELSE Pick[i - 1]
    IN  Pick[Len(mood_map)]

extract_preferences(message) ==
    LET ml == Lower(message)
    IN  [specific_prefs |-> KeywordsIn(specific_preference_keywords, ml),
         dietary |-> KeywordsIn(dietary_keywords, ml),
         moods |-> ExtractMoods(ml)]

(***************************************************************************)
(* RecommendationEngine: tables of __init__                                *)
(***************************************************************************)

\* the weights with those of the preference match and the mood match exchanged
recommendation_weights_exchanged ==
    [current_request_match |-> 40, preference_match |-> 15, mood_match |-> 20,
     dietary_compatibility |-> 15, budget_fit |-> 5, popularity |-> 5]

\* recommendation_weights, in hundredths
recommendation_weights ==
    [current_request_match |-> 40, preference_match |-> 20, mood_match |-> 15,
     dietary_compatibility |-> 15, budget_fit |-> 5, popularity |-> 5]

\* category_keywords, in dict order
category_keywords ==
    <<[category |-> "burgers", keywords |-> <<"burger", "hamburger", "cheeseburger", "beef burger", "chicken burger">>],
      [category |-> "pizza", keywords |-> <<"pizza", "margherita", "pepperoni", "cheese pizza">>],
      [category |-> "tacos", keywords |-> <<"taco", "burrito", "quesadilla", "mexican">>],
      [category |-> "desserts", keywords |-> <<"dessert", "cake", "ice cream", "cookie", "sweet", "chocolate", "pie">>],
      [category |-> "salads", keywords |-> <<"salad", "caesar", "garden", "healthy", "greens">>],
      [category |-> "drinks", keywords |-> <<"drink", "beverage", "soda", "juice", "coffee", "tea">>],
      [category |-> "sandwiches", keywords |-> <<"sandwich", "sub", "wrap", "panini">>],
      [category |-> "pasta", keywords |-> <<"pasta", "spaghetti", "fettuccine", "lasagna", "ravioli">>],
      [category |-> "chicken", keywords |-> <<"chicken", "wings", "nuggets", "fried chicken">>],
      [category |-> "seafood", keywords |-> <<"fish", "shrimp", "salmon", "seafood", "lobster">>]>>

\* dietary_exclusions
dietary_exclusions ==
    <<[restriction |-> "vegetarian", exclusions |-> <<"beef", "pork", "chicken", "turkey", "fish", "seafood", "meat", "bacon", "ham", "sausage">>],
      [restriction |-> "vegan", exclusions |-> <<"beef", "pork", "chicken", "turkey", "fish", "seafood", "meat", "dairy", "cheese", "milk", "butter", "cream", "egg", "honey">>],
      [restriction |-> "gluten-free", exclusions |-> <<"wheat", "gluten", "bread", "pasta", "flour", "barley", "rye">>],
      [restriction |-> "dairy-free", exclusions |-> <<"milk", "cheese", "butter", "cream", "yogurt", "dairy">>],
      [restriction |-> "keto", exclusions |-> <<"bread", "pasta", "rice", "potato", "sugar", "flour">>],
      [restriction |-> "low-carb", exclusions |-> <<"bread", "pasta", "rice", "potato", "sugar", "flour", "carbs">>]>>

\* dietary_detection_keywords, in dict order
dietary_detection_keywords ==
    <<[dietary_type |-> "vegetarian", keywords |-> <<"vegetarian", "veg", "veggie", "no meat", "plant-based">>],
      [dietary_type |-> "vegan", keywords |-> <<"vegan", "plant-based", "no animal products", "dairy-free and vegetarian">>],
      [dietary_type |-> "gluten-free", keywords |-> <<"gluten-free", "gluten free", "no gluten", "celiac">>],
      [dietary_type |-> "dairy-free", keywords |-> <<"dairy-free", "dairy free", "no dairy", "lactose-free", "no milk">>],
      [dietary_type |-> "keto", keywords |-> <<"keto", "ketogenic", "low-carb", "no carbs">>],
      [dietary_type |-> "low-carb", keywords |-> <<"low-carb", "low carb", "no carbs", "carb-free">>]>>

\* price_patterns of extract_food_preferences_from_message
price_patterns ==
    <<[prefix |-> "under ", kind |-> "under"],
      [prefix |-> "below ", kind |-> "under"],
      [prefix |-> "less than ", kind |-> "under"],
      [prefix |-> "around ", kind |-> "around"],
      [prefix |-> "about ", kind |-> "around"]>>

\* mood_keywords of extract_food_preferences_from_message, in dict order
engine_mood_keywords ==
    <<[mood |-> "comfort", keywords |-> <<"comfort", "cozy", "warm">>],
      [mood |-> "healthy", keywords |-> <<"healthy", "light", "fresh", "clean">>],
      [mood |-> "indulgent", keywords |-> <<"indulgent", "rich", "decadent", "treat">>],
      [mood |-> "spicy", keywords |-> <<"spicy", "hot", "kick">>],
      [mood |-> "quick", keywords |-> <<"quick", "fast", "grab">>],
      [mood |-> "fancy", keywords |-> <<"fancy", "special", "gourmet">>]>>

\* self.category_keywords.get(category, [])
CategoryKeywordsGet(category) ==
    IF \E i \in DOMAIN category_keywords : category_keywords[i].category = category
    THEN category_keywords[CHOOSE i \in DOMAIN category_keywords :
                               category_keywords[i].category = category].keywords
    ELSE <<>>

\* self.dietary_exclusions.get(restriction, []): the key is looked up as given
DietaryExclusionsGet(restriction) ==
    IF \E i \in DOMAIN dietary_exclusions : dietary_exclusions[i].restriction = restriction
    THEN dietary_exclusions[CHOOSE i \in DOMAIN dietary_exclusions :
                                dietary_exclusions[i].restriction = restriction].exclusions
    ELSE <<>>

(***************************************************************************)
(* The product catalog and the messages the model draws from               *)
(***************************************************************************)

VeggieBurger ==
    [product_id |-> "BR001", name |-> "Garden Veggie Burger", category |-> "Burgers",
     description |-> "Grilled plant patty", ingredients |-> <<"bun", "lettuce">>,
     price |-> 8, dietary_tags |-> <<"Vegetarian">>, mood_tags |-> <<"healthy">>,
     allergens |-> <<>>, popularity_score |-> 70, chef_special |-> FALSE,
     limited_time |-> FALSE, spice_level |-> 1]

BeefBurger ==
    [product_id |-> "BR002", name |-> "Classic Beef Burger", category |-> "Burgers",
     description |-> "Juicy beef patty", ingredients |-> <<"beef", "cheese", "bun">>,
     price |-> 12, dietary_tags |-> <<>>, mood_tags |-> <<"comfort">>,
     allergens |-> <<"dairy">>, popularity_score |-> 70, chef_special |-> TRUE,
     limited_time |-> FALSE, spice_level |-> 2]

MargheritaPizza ==
    [product_id |-> "PZ001", name |-> "Margherita Pizza", category |-> "Pizza",
     description |-> "Tomato and basil", ingredients |-> <<"flour", "cheese">>,
     price |-> 10, dietary_tags |-> <<"vegetarian">>, mood_tags |-> <<"comfort">>,
     allergens |-> <<"gluten">>, popularity_score |-> 0, chef_special |-> FALSE,
     limited_time |-> FALSE, spice_level |-> 0]

SalmonBowl ==
    [product_id |-> "SH001", name |-> "Salmon Bowl", category |-> "Salads & Healthy Options",
     description |-> "Seared salmon on greens", ingredients |-> <<"salmon", "spinach">>,
     price |-> 16, dietary_tags |-> <<"keto", "gluten-free">>, mood_tags |-> <<"healthy">>,
     allergens |-> <<"fish">>, popularity_score |-> 85, chef_special |-> FALSE,
     limited_time |-> TRUE, spice_level |-> 0]

FruitCup ==
    [product_id |-> "DS001", name |-> "Fruit Cup", category |-> "Desserts",
     description |-> "Seasonal fruit", ingredients |-> <<"melon", "grape">>,
     price |-> 4, dietary_tags |-> <<>>, mood_tags |-> <<>>,
     allergens |-> <<>>, popularity_score |-> NULL, chef_special |-> FALSE,
     limited_time |-> FALSE, spice_level |-> 0]

VeganTaco ==
    [product_id |-> "TW001", name |-> "Vegan Taco", category |-> "Tacos & Wraps",
     description |-> "Spiced jackfruit", ingredients |-> <<"tortilla", "jackfruit">>,
     price |-> 6, dietary_tags |-> <<"vegan", "vegetarian">>, mood_tags |-> <<"adventurous">>,
     allergens |-> <<>>, popularity_score |-> 80, chef_special |-> FALSE,
     limited_time |-> FALSE, spice_level |-> 4]

PepperoniPizza ==
    [product_id |-> "PZ002", name |-> "Pepperoni Pizza", category |-> "Pizza",
     description |-> "Pork pepperoni", ingredients |-> <<"flour", "pork">>,
     price |-> 11, dietary_tags |-> <<>>, mood_tags |-> <<"indulgent">>,
     allergens |-> <<"gluten">>, popularity_score |-> 95, chef_special |-> FALSE,
     limited_time |-> FALSE, spice_level |-> 3]

\* the contents of the products table the model starts from, in row order
Catalogs ==
    {<<VeggieBurger, BeefBurger, MargheritaPizza, PepperoniPizza, SalmonBowl, FruitCup,
       VeganTaco>>,
     <<BeefBurger, VeggieBurger, PepperoniPizza, MargheritaPizza>>,
     <<BeefBurger, FruitCup>>,
     <<>>}

Messages ==
    {"i'll take it",
     "maybe amazing",
     "no thanks",
     "I am vegetarian",
     "how much is a burger?",
     "pizza under $5",
     "Amazing, perfect! Add to cart",
     "too expensive",
     "craving a keto salad around $10",
     "plant-based tacos",
     "gluten-free dairy-free keto burger",
     "a healthy burger",
     "I love it! how much? i'll take the vegan burger under $10, feeling great"}

\* every product of some catalog, and what a tabulated operator may be asked
ProductPool == UNION {{c[i] : i \in DOMAIN c} : c \in Catalogs}

\* the dietary_tags query parameters of GET /products the model draws from
DietaryTagInputs ==
    {"vegetarian", "Vegetarian", "vegan", "keto", "KETO", "gluten-free",
     "vegetarian, keto", "keto,vegetarian", "halal"}

\* Python: s.split(',') followed by strip() of every part
RECURSIVE SplitStrip(_)
SplitStrip(s) ==
    IF \E i \in 1..Len(s) : SubSeq(s, i, i) = ","
    THEN LET i == CHOOSE k \in 1..Len(s) :
                      /\ SubSeq(s, k, k) = ","
                      /\ \A m \in 1..(k - 1) : SubSeq(s, m, m) # ","
         IN  <<Strip(SubSeq(s, 1, i - 1))>> \o SplitStrip(SubSeq(s, i + 1, Len(s)))
    ELSE <<Strip(s)>>

\* every restriction label the filter and the ranker can be given
RestrictionLabels ==
    {dietary_keywords[i] : i \in DOMAIN dietary_keywords}
    \cup {dietary_detection_keywords[i].dietary_type : i \in DOMAIN dietary_detection_keywords}
    \cup UNION {{SplitStrip(t)[i] : i \in DOMAIN SplitStrip(t)} : t \in DietaryTagInputs}

CategoryNames == {category_keywords[i].category : i \in DOMAIN category_keywords}

PreferenceTerms ==
    {specific_preference_keywords[i] : i \in DOMAIN specific_preference_keywords}

(***************************************************************************)
(* RecommendationEngine.extract_food_preferences_from_message              *)
(***************************************************************************)

DetectedCategories(message_lower) ==
    LET Pick[i \in 0..Len(category_keywords)] ==
            IF i = 0 THEN <<>>
            ELSE IF AnyIn(category_keywords[i].keywords, message_lower)
                 THEN Append(Pick[i - 1], category_keywords[i].category)
                 ELSE Pick[i - 1]
    IN  Pick[Len(category_keywords)]

DetectedDietary(message_lower) ==
    LET Pick[i \in 0..Len(dietary_detection_keywords)] ==
            IF i = 0 THEN <<>>
            ELSE IF AnyIn(dietary_detection_keywords[i].keywords, message_lower)
                 THEN Append(Pick[i - 1], dietary_detection_keywords[i].dietary_type)
                 ELSE Pick[i - 1]
    IN  Pick[Len(dietary_detection_keywords)]

DetectedMoods(message_lower) ==
    LET Pick[i \in 0..Len(engine_mood_keywords)] ==
            IF i = 0 THEN <<>>
            ELSE IF AnyIn(engine_mood_keywords[i].keywords, message_lower)
                 THEN Append(Pick[i - 1], engine_mood_keywords[i].mood)
                 ELSE Pick[i - 1]
    IN  Pick[Len(engine_mood_keywords)]

\* the first pattern of price_patterns that matches decides; the amount goes
\* through float() and the f-string
BudgetInfo(message_lower) ==
    IF \E i \in DOMAIN price_patterns :
           RegexSearch(price_patterns[i].prefix, TRUE, message_lower) # None
    THEN LET i == CHOOSE k \in DOMAIN price_patterns :
                      /\ RegexSearch(price_patterns[k].prefix, TRUE, message_lower) # None
                      /\ \A m \in 1..(k - 1) :
                             RegexSearch(price_patterns[m].prefix, TRUE, message_lower) = None
             price == ParseNat(RegexSearch(price_patterns[i].prefix, TRUE, message_lower))
         IN  price_patterns[i].kind \o " $" \o FormatFloat(price)
    ELSE None

extract_food_preferences_from_message(message) ==
    LET ml == Lower(message)
    IN  [categories |-> DetectedCategories(ml),
         budget |-> BudgetInfo(ml),
         dietary |-> DetectedDietary(ml),
         moods |-> DetectedMoods(ml)]

\* the three analyses of every message of the model, computed once
ScoreChangeOf == [m \in Messages |-> calculate_interest_score_change(m)]
PreferencesOf == [m \in Messages |-> extract_preferences(m)]
FoodPreferencesOf == [m \in Messages |-> extract_food_preferences_from_message(m)]

(***************************************************************************)
(* Text tests on a product, shared by the filter, the ranker and the       *)
(* reasons                                                                 *)
(***************************************************************************)

\* f"{product.name} {product.description} {' '.join(product.ingredients or [])}".lower()
ProductText(product) ==
    Lower(product.name \o " " \o product.description \o " " \o Join(" ", product.ingredients))

\* label.lower() in [tag.lower() for tag in (product.dietary_tags or [])]
HasDietaryTag(product, label) == InList(Lower(label), LowerAll(product.dietary_tags))

\* any(exclusion in product_text for exclusion in dietary_exclusions.get(restriction, []))
ContainsExclusion(product, restriction) ==
    AnyIn(DietaryExclusionsGet(restriction), ProductText(product))

\* category.lower() in product.category.lower()
CategoryNameMatches(product, category) ==
    Contains(Lower(category), Lower(product.category))

\* category.lower() in product.category.lower() or
\* any(keyword in product.name.lower() for keyword in category_keywords.get(category, []))
CategoryMatches(product, category) ==
    \/ CategoryNameMatches(product, category)
    \/ AnyIn(CategoryKeywordsGet(category), Lower(product.name))

\* pref.lower() in product.name.lower() or pref.lower() in product.description.lower()
PreferenceInText(product, pref) ==
    \/ Contains(Lower(pref), Lower(product.name))
    \/ Contains(Lower(pref), Lower(product.description))

\* the tests above for every product of the pool, computed once
ProductFacts ==
    [p \in ProductPool |->
        [tag |-> [r \in RestrictionLabels |-> HasDietaryTag(p, r)],
         exclusion |-> [r \in RestrictionLabels |-> ContainsExclusion(p, r)],
         category_name |-> [c \in CategoryNames |-> CategoryNameMatches(p, c)],
         category |-> [c \in CategoryNames |-> CategoryMatches(p, c)],
         preference |-> [t \in PreferenceTerms |-> PreferenceInText(p, t)]]]

(***************************************************************************)
(* RecommendationEngine._strict_dietary_filter                             *)
(***************************************************************************)

\* the restriction test without the special case of 'vegetarian' and 'vegan'
FailsRestriction_uniform(product, restriction) ==
    /\ ~ProductFacts[product].tag[restriction]
    /\ ProductFacts[product].exclusion[restriction]

\* the body of `for restriction in dietary_restrictions`: TRUE when the
\* restriction sets is_suitable to False
FailsRestriction(product, restriction) ==
    /\ ~ProductFacts[product].tag[restriction]
    /\ \/ ProductFacts[product].exclusion[restriction]
       \/ restriction \in {"vegetarian", "vegan"}

\* a product kept as soon as it passes one of the restrictions
IsSuitable_any(product, dietary_restrictions) ==
    \E i \in DOMAIN dietary_restrictions : ~FailsRestriction(product, dietary_restrictions[i])

\* is_suitable after the loop over the restrictions (the loop stops at the
\* first restriction that fails)
IsSuitable(product, dietary_restrictions) ==
    \A i \in DOMAIN dietary_restrictions : ~FailsRestriction(product, dietary_restrictions[i])

RECURSIVE FilterSuitable(_, _)
FilterSuitable(products, dietary_restrictions) ==
    IF Len(products) = 0 THEN <<>>
    ELSE (IF IsSuitable(Head(products), dietary_restrictions)
          THEN <<Head(products)>> ELSE <<>>)
         \o FilterSuitable(Tail(products), dietary_restrictions)

\* a filter that tests the first restriction of the list only
strict_dietary_filter_first_only(products, dietary_restrictions) ==
    IF Len(dietary_restrictions) = 0 THEN products
    ELSE FilterSuitable(products, <<Head(dietary_restrictions)>>)

strict_dietary_filter(products, dietary_restrictions) ==
    IF Len(dietary_restrictions) = 0 THEN products
    ELSE FilterSuitable(products, dietary_restrictions)

(***************************************************************************)
(* RecommendationEngine._calculate_recommendation_score                    *)
(***************************************************************************)

\* the result of a conversation query that finds no row
NoConversation ==
    [conversation_id |-> None, user_preferences |-> <<>>, dietary_restrictions |-> <<>>,
     mood_tags |-> <<>>, budget_range |-> None, interest_score |-> 0]

\* the sum of term[i] over the indices of a list
SumOver(list, term) ==
    LET S[i \in 0..Len(list)] == IF i = 0 THEN 0 ELSE S[i - 1] + term[i]
    IN  S[Len(list)]

\* a category loop without its `break`: +80 for every mentioned category
\* that matches
current_request_score_every_category(product, current_preferences) ==
    LET facts == ProductFacts[product]
        cat == SumOver(current_preferences.categories,
                       [i \in DOMAIN current_preferences.categories |->
                           IF facts.category[current_preferences.categories[i]]
                           THEN 80 ELSE 0])
        diet == SumOver(current_preferences.dietary,
                        [i \in DOMAIN current_preferences.dietary |->
                            IF facts.tag[current_preferences.dietary[i]]
                            THEN 50 ELSE -30])
        mood == SumOver(current_preferences.moods,
                        [i \in DOMAIN current_preferences.moods |->
                            IF InList(current_preferences.moods[i], product.mood_tags)
                            THEN 15 ELSE 0])
    IN  Max(0, Min(cat + diet + mood, 100))

current_request_score(product, current_preferences) ==
    LET facts == ProductFacts[product]
        cat == IF \E i \in DOMAIN current_preferences.categories :
                      facts.category[current_preferences.categories[i]]
               THEN 80 ELSE 0
        diet == SumOver(current_preferences.dietary,
                        [i \in DOMAIN current_preferences.dietary |->
                            IF facts.tag[current_preferences.dietary[i]]
                            THEN 50 ELSE -30])
        mood == SumOver(current_preferences.moods,
                        [i \in DOMAIN current_preferences.moods |->
                            IF InList(current_preferences.moods[i], product.mood_tags)
                            THEN 15 ELSE 0])
    IN  Max(0, Min(cat + diet + mood, 100))

preference_score(product, conversation) ==
    LET prefs == conversation.user_preferences
        preference_matches ==
            Cardinality({i \in DOMAIN prefs :
                \/ ProductFacts[product].preference[prefs[i]]
                \/ InList(prefs[i], product.dietary_tags)
                \/ InList(prefs[i], product.mood_tags)})
    IN  Min(preference_matches * 20, 100)

mood_score(product, conversation) ==
    LET mood_matches ==
            Cardinality({conversation.mood_tags[i] : i \in DOMAIN conversation.mood_tags}
                        \cap {product.mood_tags[i] : i \in DOMAIN product.mood_tags})
    IN  Min(mood_matches * 30, 100)

dietary_score(product, conversation) ==
    IF \E i \in DOMAIN conversation.dietary_restrictions :
           LET restriction == conversation.dietary_restrictions[i]
           IN  \/ InList(restriction, product.allergens)
               \/ /\ ~ProductFacts[product].tag[restriction]
                  /\ ProductFacts[product].exclusion[restriction]
    THEN 0 ELSE 100

\* current_preferences['budget'] or getattr(conversation, 'budget_range', None)
BudgetRange(conversation, current_preferences) ==
    IF current_preferences.budget # None /\ current_preferences.budget # ""
    THEN current_preferences.budget
    ELSE conversation.budget_range

\* one penalty of 5 per dollar for both kinds of budget
budget_score_one_rate(product, conversation, current_preferences) ==
    LET budget_range == BudgetRange(conversation, current_preferences)
        text == Lower(budget_range)
    IN  IF budget_range = None \/ budget_range = "" THEN 100
        ELSE IF Contains("under", text)
        THEN LET budget_limit == ParseFloat(Strip(Replace(Replace(text, "under", ""), "$", "")))
             IN  IF budget_limit = NULL THEN 100
                 ELSE IF product.price <= budget_limit THEN 100
                 ELSE Max(0, 100 - (product.price - budget_limit) * 5)
        ELSE IF Contains("around", text)
        THEN LET target_price == ParseFloat(Strip(Replace(Replace(text, "around", ""), "$", "")))
                 price_diff == IF product.price >= target_price
                               THEN product.price - target_price
                               ELSE target_price - product.price
             IN  IF target_price = NULL THEN 100
                 ELSE Max(0, 100 - price_diff * 5)
        ELSE 100

budget_score(product, conversation, current_preferences) ==
    LET budget_range == BudgetRange(conversation, current_preferences)
        text == Lower(budget_range)
    IN  IF budget_range = None \/ budget_range = "" THEN 100
        ELSE IF Contains("under", text)
        THEN LET budget_limit == ParseFloat(Strip(Replace(Replace(text, "under", ""), "$", "")))
             IN  IF budget_limit = NULL THEN 100
                 ELSE IF product.price <= budget_limit THEN 100
                 ELSE Max(0, 100 - (product.price - budget_limit) * 10)
        ELSE IF Contains("around", text)
        THEN LET target_price == ParseFloat(Strip(Replace(Replace(text, "around", ""), "$", "")))
                 price_diff == IF product.price >= target_price
                               THEN product.price - target_price
                               ELSE target_price - product.price
             IN  IF target_price = NULL THEN 100
                 ELSE Max(0, 100 - price_diff * 5)
        ELSE 100

\* product.popularity_score or 50
popularity_score(product) ==
    IF product.popularity_score = NULL \/ product.popularity_score = 0
    THEN 50 ELSE product.popularity_score

\* the score in hundredths; round(score, 2) keeps it
calculate_recommendation_score(product, conversation, current_preferences) ==
    current_request_score(product, current_preferences)
        * recommendation_weights.current_request_match
    + (IF conversation.conversation_id # None
       THEN preference_score(product, conversation) * recommendation_weights.preference_match
            + mood_score(product, conversation) * recommendation_weights.mood_match
            + dietary_score(product, conversation) * recommendation_weights.dietary_compatibility
            + budget_score(product, conversation, current_preferences)
                  * recommendation_weights.budget_fit
       ELSE 0)
    + popularity_score(product) * recommendation_weights.popularity

(***************************************************************************)
(* RecommendationEngine._get_recommendation_reasons                        *)
(***************************************************************************)

\* the reasons a list comprehension-like loop appends: text[i] for the
\* indices i of list that satisfy keep[i], in list order
ReasonsFor(list, keep, text) ==
    LET R[i \in 0..Len(list)] ==
            IF i = 0 THEN <<>>
            ELSE IF keep[i] THEN Append(R[i - 1], text[i]) ELSE R[i - 1]
    IN  R[Len(list)]

FirstN(list, n) == SubSeq(list, 1, Min(n, Len(list)))

\* the product features before the reasons of the request
get_recommendation_reasons_features_first(product, conversation, current_preferences) ==
    LET cats == current_preferences.categories
        diets == current_preferences.dietary
        moods == current_preferences.moods
        prefs == conversation.user_preferences
        facts == ProductFacts[product]
        catHit == {i \in DOMAIN cats : facts.category_name[cats[i]]}
        r1 == IF catHit # {}
              THEN <<"Perfect " \o cats[CHOOSE i \in catHit : \A j \in catHit : i <= j]
                        \o " match for your request">>
              ELSE <<>>
        \* the source prefixes this reason with a check-mark emoji
        r2 == ReasonsFor(diets,
                         [i \in DOMAIN diets |-> facts.tag[diets[i]]],
                         [i \in DOMAIN diets |-> "Meets your " \o diets[i] \o " requirements"])
        r3 == ReasonsFor(moods,
                         [i \in DOMAIN moods |-> InList(moods[i], product.mood_tags)],
                         [i \in DOMAIN moods |-> "Great for a " \o moods[i] \o " meal"])
        prefHit == {i \in DOMAIN prefs : facts.preference[prefs[i]]}
        r4 == IF conversation.conversation_id # None /\ prefHit # {}
              THEN <<"Matches your preference for "
                        \o prefs[CHOOSE i \in prefHit : \A j \in prefHit : i <= j]>>
              ELSE <<>>
        budget_range == BudgetRange(conversation, current_preferences)
        budget_limit == ParseFloat(Strip(Replace(Replace(Lower(budget_range), "under", ""), "$", "")))
        r5 == IF /\ conversation.conversation_id # None
                 /\ budget_range # None /\ budget_range # ""
                 /\ Contains("under", Lower(budget_range))
                 /\ budget_limit # NULL
                 /\ product.price <= budget_limit
              THEN <<"Within your $" \o FormatFloat(budget_limit) \o " budget">>
              ELSE <<>>
        r6 == IF product.chef_special THEN <<"Chef's special recommendation">> ELSE <<>>
        r7 == IF product.limited_time THEN <<"Limited time offer">> ELSE <<>>
        r8 == IF product.popularity_score # NULL /\ product.popularity_score > 80
              THEN <<"Highly popular choice">> ELSE <<>>
    IN  FirstN(r6 \o r7 \o r8 \o r1 \o r2 \o r3 \o r4 \o r5, 3)

get_recommendation_reasons(product, conversation, current_preferences) ==
    LET cats == current_preferences.categories
        diets == current_preferences.dietary
        moods == current_preferences.moods
        prefs == conversation.user_preferences
        facts == ProductFacts[product]
        catHit == {i \in DOMAIN cats : facts.category_name[cats[i]]}
        r1 == IF catHit # {}
              THEN <<"Perfect " \o cats[CHOOSE i \in catHit : \A j \in catHit : i <= j]
                        \o " match for your request">>
              ELSE <<>>
        \* the source prefixes this reason with a check-mark emoji
        r2 == ReasonsFor(diets,
                         [i \in DOMAIN diets |-> facts.tag[diets[i]]],
                         [i \in DOMAIN diets |-> "Meets your " \o diets[i] \o " requirements"])
        r3 == ReasonsFor(moods,
                         [i \in DOMAIN moods |-> InList(moods[i], product.mood_tags)],
                         [i \in DOMAIN moods |-> "Great for a " \o moods[i] \o " meal"])
        prefHit == {i \in DOMAIN prefs : facts.preference[prefs[i]]}
        r4 == IF conversation.conversation_id # None /\ prefHit # {}
              THEN <<"Matches your preference for "
                        \o prefs[CHOOSE i \in prefHit : \A j \in prefHit : i <= j]>>
              ELSE <<>>
        budget_range == BudgetRange(conversation, current_preferences)
        budget_limit == ParseFloat(Strip(Replace(Replace(Lower(budget_range), "under", ""), "$", "")))
        r5 == IF /\ conversation.conversation_id # None
                 /\ budget_range # None /\ budget_range # ""
                 /\ Contains("under", Lower(budget_range))
                 /\ budget_limit # NULL
                 /\ product.price <= budget_limit
              THEN <<"Within your $" \o FormatFloat(budget_limit) \o " budget">>
              ELSE <<>>
        r6 == IF product.chef_special THEN <<"Chef's special recommendation">> ELSE <<>>
        r7 == IF product.limited_time THEN <<"Limited time offer">> ELSE <<>>
        r8 == IF product.popularity_score # NULL /\ product.popularity_score > 80
              THEN <<"Highly popular choice">> ELSE <<>>
    IN  FirstN(r1 \o r2 \o r3 \o r4 \o r5 \o r6 \o r7 \o r8, 3)

(***************************************************************************)
(* RecommendationEngine.get_personalized_recommendations                   *)
(***************************************************************************)

\* current_preferences['dietary'].copy() extended by the stored restrictions
all_dietary_restrictions(conversation, current_preferences) ==
    AppendMissing(current_preferences.dietary, conversation.dietary_restrictions)

\* the single entry returned when the dietary filter leaves no product
NoMatchEntry(restrictions) ==
    [product_id |-> "no_match",
     name |-> "No suitable products found",
     category |-> "Notice",
     description |-> "Sorry, no products match your " \o Join(", ", restrictions)
                        \o " requirements.",
     price |-> 0,
     dietary_tags |-> restrictions,
     mood_tags |-> <<>>,
     spice_level |-> 0,
     popularity_score |-> 0,
     recommendation_score |-> 0,
     reasons |-> <<"Strict " \o Join(", ", restrictions) \o " filtering applied">>]

\* [x for x in list if keep[i]]
SelectByIndex(list, keep) ==
    LET R[i \in 0..Len(list)] ==
            IF i = 0 THEN <<>>
            ELSE IF keep[i] THEN Append(R[i - 1], list[i]) ELSE R[i - 1]
    IN  R[Len(list)]

\* a STEP 2 that keeps the matching products even when there are none
CategoryStep_matching_only(products, categories) ==
    IF Len(categories) = 0 THEN products
    ELSE SelectByIndex(products,
             [i \in DOMAIN products |->
                 \E c \in DOMAIN categories :
                     ProductFacts[products[i]].category[categories[c]]])

\* STEP 2: the products matching a mentioned category, or all of them when
\* none matches
CategoryStep(products, categories) ==
    IF Len(categories) = 0 THEN products
    ELSE LET filtered_products ==
                 SelectByIndex(products,
                     [i \in DOMAIN products |->
                         \E c \in DOMAIN categories :
                             ProductFacts[products[i]].category[categories[c]]])
         IN  IF Len(filtered_products) > 0 THEN filtered_products ELSE products

\* a STEP 3 that keeps every product
BudgetStep_skipped(products, budget) == products

\* STEP 3: the budget filter; target_price * 0.8 <= price <= target_price * 1.2
\* is compared in tenths
BudgetStep(products, budget) ==
    IF budget = None \/ budget = "" THEN products
    ELSE IF Contains("under", budget)
    THEN LET max_price == ParseFloat(Replace(budget, "under $", ""))
         IN  IF max_price = NULL THEN products
             ELSE SelectByIndex(products,
                      [i \in DOMAIN products |-> products[i].price <= max_price])
    ELSE IF Contains("around", budget)
    THEN LET target_price == ParseFloat(Replace(budget, "around $", ""))
         IN  IF target_price = NULL THEN products
             ELSE SelectByIndex(products,
                      [i \in DOMAIN products |->
                          /\ target_price * 8 <= products[i].price * 10
                          /\ products[i].price * 10 <= target_price * 12])
    ELSE products

\* a sort that puts an entry before the earlier entries of equal score
InsertDesc_unstable(sorted, rec) ==
    LET before == {i \in DOMAIN sorted : sorted[i].score > rec.score}
        k == Cardinality(before)
    IN  SubSeq(sorted, 1, k) \o <<rec>> \o SubSeq(sorted, k + 1, Len(sorted))

\* list.sort(key=lambda x: x['score'], reverse=True): stable, equal scores
\* keep their order
InsertDesc(sorted, rec) ==
    LET before == {i \in DOMAIN sorted : sorted[i].score >= rec.score}
        k == Cardinality(before)
    IN  SubSeq(sorted, 1, k) \o <<rec>> \o SubSeq(sorted, k + 1, Len(sorted))

SortByScoreDesc(recs) ==
    LET S[i \in 0..Len(recs)] ==
            IF i = 0 THEN <<>> ELSE InsertDesc(S[i - 1], recs[i])
    IN  S[Len(recs)]

\* STEP 4: score every candidate, sort, keep the first `limit`
DietaryBonus(restrictions) == IF Len(restrictions) > 0 THEN 2000 ELSE 0

RankedRecommendations(products, conversation, current_preferences, restrictions) ==
    SortByScoreDesc(
        [i \in DOMAIN products |->
            [product |-> products[i],
             score |-> calculate_recommendation_score(products[i], conversation,
                                                      current_preferences)
                       + DietaryBonus(restrictions),
             reasons |-> get_recommendation_reasons(products[i], conversation,
                                                    current_preferences)]])

\* top_recommendations before STEP 5
PrimaryTop(catalog, conversation, current_preferences, limit) ==
    LET restrictions == all_dietary_restrictions(conversation, current_preferences)
        compliant == strict_dietary_filter(catalog, restrictions)
        candidates == BudgetStep(CategoryStep(compliant, current_preferences.categories),
                                 current_preferences.budget)
    IN  FirstN(RankedRecommendations(candidates, conversation, current_preferences,
                                     restrictions), limit)

\* a STEP 5 that is entered whatever the primary list holds
FallbackTriggered_always(top_recommendations) == TRUE

\* not top_recommendations or all(rec['score'] < 30 for rec in top_recommendations)
FallbackTriggered(top_recommendations) ==
    \A i \in DOMAIN top_recommendations : top_recommendations[i].score < 3000

\* the sort key of ORDER BY popularity_score DESC; where a NULL sorts
\* depends on the database
PopularityKey(product, nullsFirst) ==
    IF product.popularity_score = NULL
    THEN (IF nullsFirst THEN 101 ELSE -1)
    ELSE product.popularity_score

\* the orders of the row indices S that are non-increasing in the sort key
RECURSIVE SortedOrders(_, _, _)
SortedOrders(rows, S, nullsFirst) ==
    IF S = {} THEN {<<>>}
    ELSE UNION {{<<i>> \o rest : rest \in SortedOrders(rows, S \ {i}, nullsFirst)} :
                   i \in {j \in S : \A k \in S : PopularityKey(rows[j], nullsFirst)
                                                    >= PopularityKey(rows[k], nullsFirst)}}

\* the rows in any order ORDER BY popularity_score DESC may return them:
\* equal keys in either order, NULL first or last
OrderByPopularityDesc(rows) ==
    {[k \in DOMAIN order |-> rows[order[k]]] :
        order \in SortedOrders(rows, DOMAIN rows, TRUE)
                  \cup SortedOrders(rows, DOMAIN rows, FALSE)}

\* db.query(Product).filter(Product.category.ilike(f'%{category}%'))
\*   .order_by(Product.popularity_score.desc()).all()
CategoryQueryByPopularity(products, category) ==
    OrderByPopularityDesc(
        SelectByIndex(products,
            [i \in DOMAIN products |-> ProductFacts[products[i]].category_name[category]]))

\* STEP 5 without the second application of the dietary filter
FallbackTop_unfiltered(fallback_query, category, restrictions, limit) ==
    LET top == FirstN(fallback_query, limit)
    IN  [i \in DOMAIN top |->
            [product |-> top[i],
             score |-> (popularity_score(top[i]) + 20) * 100,
             reasons |-> <<"Popular " \o category
                              \o " option that meets your dietary requirements",
                           "High customer rating">>]]

\* the list STEP 5 builds from the fallback query result
FallbackTop(fallback_query, category, restrictions, limit) ==
    LET fallback_products == strict_dietary_filter(fallback_query, restrictions)
        top == FirstN(fallback_products, limit)
    IN  [i \in DOMAIN top |->
            [product |-> top[i],
             score |-> (popularity_score(top[i]) + 20) * 100,
             reasons |-> <<"Popular " \o category
                              \o " option that meets your dietary requirements",
                           "High customer rating">>]]

\* `if fallback_products:` replaces top_recommendations by the fallback
\* entries; for limit >= 1 there is an entry exactly when a product is left
NonEmptyOr(fallback_recommendations, top_recommendations) ==
    IF Len(fallback_recommendations) > 0 THEN fallback_recommendations
    ELSE top_recommendations

\* top_recommendations after STEP 5, primary being its value before;
\* fallback_query is the result of the category query, used only when the
\* fallback is attempted
TopRecommendations(primary, current_preferences, restrictions, limit, fallback_query) ==
    IF FallbackTriggered(primary) /\ Len(current_preferences.categories) > 0
    THEN NonEmptyOr(FallbackTop(fallback_query, current_preferences.categories[1],
                                restrictions, limit),
                    primary)
    ELSE primary

\* one dict of the returned list
FormatRecommendation(rec) ==
    [product_id |-> rec.product.product_id,
     name |-> rec.product.name,
     category |-> rec.product.category,
     description |-> rec.product.description,
     price |-> rec.product.price,
     dietary_tags |-> rec.product.dietary_tags,
     mood_tags |-> rec.product.mood_tags,
     spice_level |-> rec.product.spice_level,
     popularity_score |-> rec.product.popularity_score,
     recommendation_score |-> rec.score,
     reasons |-> rec.reasons]

\* a STEP 1 that never returns the sentinel
NoProductMatches_never(catalog, conversation, current_preferences) == FALSE

\* TRUE when STEP 1 returns the sentinel
NoProductMatches(catalog, conversation, current_preferences) ==
    LET restrictions == all_dietary_restrictions(conversation, current_preferences)
    IN  /\ Len(restrictions) > 0
        /\ Len(strict_dietary_filter(catalog, restrictions)) = 0

\* the list of dicts built from top_recommendations
FormatAll(top_recommendations) ==
    [i \in DOMAIN top_recommendations |-> FormatRecommendation(top_recommendations[i])]

\* the returned list
get_personalized_recommendations(catalog, conversation, current_message, limit, fallback_query) ==
    LET current_preferences == FoodPreferencesOf[current_message]
        restrictions == all_dietary_restrictions(conversation, current_preferences)
    IN  IF NoProductMatches(catalog, conversation, current_preferences)
        THEN <<NoMatchEntry(restrictions)>>
        ELSE FormatAll(TopRecommendations(
                 PrimaryTop(catalog, conversation, current_preferences, limit),
                 current_preferences, restrictions, limit, fallback_query))

\* a logging loop without the existing_rec query of lines 277-284
LogRecommendations_unchecked(log, conversation_id, recommendations) ==
    log \cup {[conversation_id |-> conversation_id,
               product_id |-> recommendations[i].product_id,
               recommendation_score |-> recommendations[i].recommendation_score,
               reason |-> Join(", ", recommendations[i].reasons)] :
                 i \in {k \in DOMAIN recommendations :
                           recommendations[k].product_id # "no_match"}}

\* the ProductRecommendation rows after the call: one row is added for each
\* returned product that has no row for this conversation yet
LogRecommendations(log, conversation_id, recommendations) ==
    LET Add[i \in 0..Len(recommendations)] ==
            IF i = 0 THEN log
            ELSE IF \/ recommendations[i].product_id = "no_match"
                    \/ \E r \in Add[i - 1] :
                           /\ r.conversation_id = conversation_id
                           /\ r.product_id = recommendations[i].product_id
                 THEN Add[i - 1]
                 ELSE Add[i - 1] \cup
                      {[conversation_id |-> conversation_id,
                        product_id |-> recommendations[i].product_id,
                        recommendation_score |-> recommendations[i].recommendation_score,
                        reason |-> Join(", ", recommendations[i].reasons)]}
    IN  Add[Len(recommendations)]

(***************************************************************************)
(* RecommendationEngine.get_filtered_products                              *)
(***************************************************************************)

\* the rows the query of get_filtered_products selects, in table order;
\* ilike(f'%{category}%') is a case-insensitive substring test
BasicCriteria(products, category, min_price, max_price) ==
    SelectByIndex(products,
        [i \in DOMAIN products |->
            /\ category = None \/ category = ""
                   \/ Contains(Lower(category), Lower(products[i].category))
            /\ min_price = NULL \/ products[i].price >= min_price
            /\ max_price = NULL \/ products[i].price <= max_price])

\* the mood filter: any(tag in product_mood_tags for tag in mood_list)
MoodFilter(products, mood_tags) ==
    IF mood_tags = None \/ mood_tags = "" THEN products
    ELSE LET mood_list == SplitStrip(mood_tags)
         IN  SelectByIndex(products,
                 [i \in DOMAIN products |->
                     \E m \in DOMAIN mood_list : InList(mood_list[m], products[i].mood_tags)])

\* the returned products; query_result is what the ordered query returned
get_filtered_products(query_result, dietary_tags, mood_tags) ==
    LET products == IF dietary_tags = None \/ dietary_tags = "" THEN query_result
                    ELSE strict_dietary_filter(query_result, SplitStrip(dietary_tags))
    IN  MoodFilter(products, mood_tags)

(***************************************************************************)
(* Bounds                                                                  *)
(***************************************************************************)

\* process_message calls in one behaviour of Spec
MaxMessages == 2
\* process_message calls that precede the direct engine calls in SpecEngine
MaxHistory == 1
\* calls of the engine from outside POST /chat in one behaviour
MaxCalls == 1
\* rows of the conversations table
MaxConversations == 1
\* the largest `limit` a direct call of the engine passes
MaxLimit == 2

(***************************************************************************)
(* State                                                                   *)
(***************************************************************************)

VARIABLES
    catalog,             \* the products table, in row order
    conversations,       \* the conversations table: conversation_id -> row
    recommendation_log,  \* the product_recommendations table
    interaction_log,     \* the interaction_logs table, in insertion order
    request,             \* the call being served, with its arguments
    response,            \* what that call returned
    calls,               \* calls of the engine made from outside POST /chat
    in_flight            \* the POST /chat requests being served concurrently

vars == <<catalog, conversations, recommendation_log, interaction_log, request,
          response, calls, in_flight>>

NoRequest == [op |-> "none"]
NoResponse == [op |-> "none"]

Init ==
    /\ catalog \in Catalogs
    /\ conversations = <<>>
    /\ recommendation_log = {}
    /\ interaction_log = <<>>
    /\ request = NoRequest
    /\ response = NoResponse
    /\ calls = 0
    /\ in_flight = <<>>

\* str(uuid.uuid4()): an id no row has
NewConversationId == "conv-" \o NatToStr(Cardinality(DOMAIN conversations) + 1)

\* Conversation(conversation_id=..., user_preferences=[], dietary_restrictions=[],
\*              mood_tags=[], interest_score=0)
NewConversation(conversation_id) ==
    [conversation_id |-> conversation_id, user_preferences |-> <<>>,
     dietary_restrictions |-> <<>>, mood_tags |-> <<>>, budget_range |-> None,
     interest_score |-> 0]

\* db.query(Conversation).filter(conversation_id == id).first()
QueryConversation(conversation_id) ==
    IF conversation_id \in DOMAIN conversations
    THEN conversations[conversation_id] ELSE NoConversation

\* the conversation ids a request may carry: none, a stored id, an unknown id
RequestIds == {None, "conv-unknown"} \cup DOMAIN conversations

(***************************************************************************)
(* ConversationService.process_message                                     *)
(***************************************************************************)

\* the score update with the clamp left out
NewScore_unclamped(interest_score, score_change) == interest_score + score_change

\* max(0, min(100, conversation.interest_score + score_change))
NewScore(interest_score, score_change) == Max(0, Min(100, interest_score + score_change))

\* a merge that stores what the message yields in place of the stored lists
UpdatedConversation_replaced(conversation, message) ==
    LET preferences == PreferencesOf[message]
        score_change == ScoreChangeOf[message].score_change
    IN  [conversation EXCEPT
            !.interest_score = NewScore(@, score_change),
            !.dietary_restrictions =
                IF Len(preferences.dietary) > 0 THEN preferences.dietary ELSE @,
            !.mood_tags = IF Len(preferences.moods) > 0 THEN preferences.moods ELSE @,
            !.user_preferences =
                IF Len(preferences.specific_prefs) > 0 THEN preferences.specific_prefs ELSE @]

\* the conversation row after the score update and the preference merge
UpdatedConversation(conversation, message) ==
    LET preferences == PreferencesOf[message]
        score_change == ScoreChangeOf[message].score_change
    IN  [conversation EXCEPT
            !.interest_score = NewScore(@, score_change),
            !.dietary_restrictions = AppendMissing(@, preferences.dietary),
            !.mood_tags = AppendMissing(@, preferences.moods),
            !.user_preferences = AppendMissing(@, preferences.specific_prefs)]

\* the value of 'interest_score_change' in the returned dict
ReportedScoreChange(conversation, message) == ScoreChangeOf[message].score_change

\* a gate that opens at 30
RecommendationsWanted_from_thirty(conversation) == conversation.interest_score >= 30

\* conversation.interest_score > 30
RecommendationsWanted(conversation) == conversation.interest_score > 30

\* the row process_message works on: the stored one, or a new one
GetOrCreateConversation(conversation_id) ==
    IF conversation_id # None /\ conversation_id \in DOMAIN conversations
    THEN conversations[conversation_id]
    ELSE NewConversation(NewConversationId)

\* the local variables of process_message are bound once, in the order the
\* code assigns them
process_message(message, conversation_id, fallback_query) ==
    \E conversation \in {GetOrCreateConversation(conversation_id)} :
    \E updated \in {UpdatedConversation(conversation, message)} :
    \E recommendations \in
           {IF RecommendationsWanted(updated)
            THEN get_personalized_recommendations(catalog, updated, message, 3,
                                                  fallback_query)
            ELSE <<>>} :
        /\ \/ conversation.conversation_id \in DOMAIN conversations
           \/ Cardinality(DOMAIN conversations) < MaxConversations
        /\ conversations' =
               [id \in DOMAIN conversations \cup {conversation.conversation_id} |->
                   IF id = conversation.conversation_id THEN updated
                   ELSE conversations[id]]
        /\ recommendation_log' = LogRecommendations(recommendation_log,
                                                    conversation.conversation_id,
                                                    recommendations)
        /\ interaction_log' =
               Append(interaction_log,
                      [conversation_id |-> conversation.conversation_id,
                       user_message |-> message,
                       interest_score |-> updated.interest_score,
                       engagement_factors |-> ScoreChangeOf[message].engagement_factors])
        /\ request' = [op |-> "process_message", message |-> message,
                       conversation_id |-> conversation_id]
        /\ response' = [op |-> "process_message",
                        conversation_id |-> conversation.conversation_id,
                        interest_score |-> updated.interest_score,
                        interest_score_change |-> ReportedScoreChange(conversation, message),
                        engagement_factors |-> ScoreChangeOf[message].engagement_factors,
                        recommendations |-> recommendations]
        /\ UNCHANGED <<in_flight, catalog, calls>>

\* the category query of STEP 5 for a message; <<>> when no category is mentioned
FallbackQueries(message) ==
    LET categories == FoodPreferencesOf[message].categories
    IN  IF Len(categories) = 0 THEN {<<>>}
        ELSE CategoryQueryByPopularity(catalog, categories[1])

\* POST /chat
ProcessMessage ==
    /\ Len(interaction_log) < MaxMessages
    /\ \E message \in Messages, conversation_id \in RequestIds :
           \E fallback_query \in FallbackQueries(message) :
               process_message(message, conversation_id, fallback_query)

Next == ProcessMessage

Spec == Init /\ [][Next]_vars

(***************************************************************************)
(* The engine called on its own: conversations are built by POST /chat,    *)
(* then get_personalized_recommendations is called with any limit          *)
(***************************************************************************)

\* the chat messages that build the stored conversations of SpecEngine
HistoryMessages ==
    {"I am vegetarian", "craving a keto salad around $10",
     "I love it! how much? i'll take the vegan burger under $10, feeling great"}

\* the values of current_message the direct calls pass
EngineMessages ==
    {"pizza under $5", "craving a keto salad around $10", "plant-based tacos",
     "how much is a burger?", "no thanks", "gluten-free dairy-free keto burger"}

EngineProcessMessage ==
    /\ Len(interaction_log) < MaxHistory
    /\ calls = 0
    /\ \E message \in HistoryMessages, conversation_id \in RequestIds :
           \E fallback_query \in FallbackQueries(message) :
               process_message(message, conversation_id, fallback_query)

\* a call that writes the combined restrictions of line 175 back to the
\* conversation it read
GetPersonalizedRecommendations_recording ==
    /\ calls < MaxCalls
    /\ \E conversation_id \in DOMAIN conversations \cup {"conv-unknown"},
          message \in EngineMessages, limit \in 1..MaxLimit :
           \E fallback_query \in FallbackQueries(message) :
               \E recommendations \in
                      {get_personalized_recommendations(
                           catalog, QueryConversation(conversation_id), message, limit,
                           fallback_query)} :
                   /\ recommendation_log' =
                          LogRecommendations(recommendation_log, conversation_id,
                                             recommendations)
                   /\ conversations' =
                          [id \in DOMAIN conversations |->
                              IF id = conversation_id
                              THEN [conversations[id] EXCEPT !.dietary_restrictions =
                                       all_dietary_restrictions(conversations[id],
                                                                FoodPreferencesOf[message])]
                              ELSE conversations[id]]
                   /\ request' = [op |-> "get_personalized_recommendations",
                                  conversation_id |-> conversation_id,
                                  current_message |-> message,
                                  limit |-> limit]
                   /\ response' = [op |-> "get_personalized_recommendations",
                                   recommendations |-> recommendations]
                   /\ calls' = calls + 1
                   /\ UNCHANGED <<in_flight, catalog, interaction_log>>

GetPersonalizedRecommendations ==
    /\ calls < MaxCalls
    /\ \E conversation_id \in DOMAIN conversations \cup {"conv-unknown"},
          message \in EngineMessages, limit \in 1..MaxLimit :
           \E fallback_query \in FallbackQueries(message) :
               \E recommendations \in
                      {get_personalized_recommendations(
                           catalog, QueryConversation(conversation_id), message, limit,
                           fallback_query)} :
                   /\ recommendation_log' =
                          LogRecommendations(recommendation_log, conversation_id,
                                             recommendations)
                   /\ request' = [op |-> "get_personalized_recommendations",
                                  conversation_id |-> conversation_id,
                                  current_message |-> message,
                                  limit |-> limit]
                   /\ response' = [op |-> "get_personalized_recommendations",
                                   recommendations |-> recommendations]
                   /\ calls' = calls + 1
                   /\ UNCHANGED <<in_flight, catalog, conversations, interaction_log>>

NextEngine == EngineProcessMessage \/ GetPersonalizedRecommendations

SpecEngine == Init /\ [][NextEngine]_vars

(***************************************************************************)
(* The engine called twice with the same arguments: the products table is  *)
(* not written between the runs, so the category query of STEP 5 returns   *)
(* the rows of the first run again; they are kept with the call            *)
(***************************************************************************)

RunRecommendations ==
    /\ calls = 0
    /\ \E conversation_id \in DOMAIN conversations \cup {"conv-unknown"},
          message \in EngineMessages, limit \in 1..MaxLimit :
           \E fallback_query \in FallbackQueries(message) :
               \E recommendations \in
                      {get_personalized_recommendations(
                           catalog, QueryConversation(conversation_id), message, limit,
                           fallback_query)} :
                   /\ recommendation_log' =
                          LogRecommendations(recommendation_log, conversation_id,
                                             recommendations)
                   /\ request' = [op |-> "get_personalized_recommendations",
                                  conversation_id |-> conversation_id,
                                  current_message |-> message,
                                  limit |-> limit,
                                  category_query |-> fallback_query]
                   /\ response' = [op |-> "get_personalized_recommendations",
                                   recommendations |-> recommendations]
                   /\ calls' = 1
                   /\ UNCHANGED <<in_flight, catalog, conversations, interaction_log>>

\* a second run that skips the products for which the existing_rec query of
\* the logging loop finds a row
RunRecommendationsAgain_unseen ==
    /\ calls >= 1
    /\ calls <= MaxCalls
    /\ \E recommendations \in
           {get_personalized_recommendations(
                SelectByIndex(catalog,
                    [i \in DOMAIN catalog |->
                        catalog[i].product_id
                            \notin {row.product_id : row \in recommendation_log}]),
                QueryConversation(request.conversation_id),
                request.current_message, request.limit, request.category_query)} :
        /\ recommendation_log' =
               LogRecommendations(recommendation_log, request.conversation_id,
                                  recommendations)
        /\ response' = [op |-> "get_personalized_recommendations",
                        recommendations |-> recommendations]
        /\ calls' = calls + 1
        /\ UNCHANGED <<in_flight, catalog, conversations, interaction_log, request>>

\* the same call once more, on the tables as the earlier runs left them
RunRecommendationsAgain ==
    /\ calls >= 1
    /\ calls <= MaxCalls
    /\ \E recommendations \in
           {get_personalized_recommendations(
                catalog, QueryConversation(request.conversation_id),
                request.current_message, request.limit, request.category_query)} :
        /\ recommendation_log' =
               LogRecommendations(recommendation_log, request.conversation_id,
                                  recommendations)
        /\ response' = [op |-> "get_personalized_recommendations",
                        recommendations |-> recommendations]
        /\ calls' = calls + 1
        /\ UNCHANGED <<in_flight, catalog, conversations, interaction_log, request>>

\* a run whose failing append makes the call return nothing
RunRecommendationsAppendFails_aborted ==
    /\ calls = 0
    /\ \E conversation_id \in DOMAIN conversations \cup {"conv-unknown"},
          message \in EngineMessages, limit \in 1..MaxLimit :
           \E fallback_query \in FallbackQueries(message) :
               \E recommendations \in
                      {<<>>} :
                   /\ request' = [op |-> "get_personalized_recommendations",
                                  conversation_id |-> conversation_id,
                                  current_message |-> message,
                                  limit |-> limit,
                                  category_query |-> fallback_query,
                                  append |-> "fails"]
                   /\ response' = [op |-> "get_personalized_recommendations",
                                   recommendations |-> recommendations]
                   /\ calls' = 1
                   /\ UNCHANGED <<in_flight, catalog, conversations, recommendation_log,
                                  interaction_log>>

\* a first run in which the logging loop of lines 275-293 raises (the
\* existing_rec query, db.add or db.commit): the handler of line 294 prints
\* the error, no row is committed, and the list is formatted and returned
RunRecommendationsAppendFails ==
    /\ calls = 0
    /\ \E conversation_id \in DOMAIN conversations \cup {"conv-unknown"},
          message \in EngineMessages, limit \in 1..MaxLimit :
           \E fallback_query \in FallbackQueries(message) :
               \E recommendations \in
                      {get_personalized_recommendations(
                           catalog, QueryConversation(conversation_id), message, limit,
                           fallback_query)} :
                   /\ request' = [op |-> "get_personalized_recommendations",
                                  conversation_id |-> conversation_id,
                                  current_message |-> message,
                                  limit |-> limit,
                                  category_query |-> fallback_query,
                                  append |-> "fails"]
                   /\ response' = [op |-> "get_personalized_recommendations",
                                   recommendations |-> recommendations]
                   /\ calls' = 1
                   /\ UNCHANGED <<in_flight, catalog, conversations, recommendation_log,
                                  interaction_log>>

NextRepeat ==
    \/ EngineProcessMessage
    \/ RunRecommendations
    \/ RunRecommendationsAppendFails
    \/ RunRecommendationsAgain

SpecRepeat == Init /\ [][NextRepeat]_vars

(***************************************************************************)
(* _calculate_recommendation_score applied to a product of the catalog,    *)
(* for a stored or missing conversation and the preferences of a message;  *)
(* the response holds the values of the method's local variables when it   *)
(* returns                                                                 *)
(***************************************************************************)

\* the local variables of _calculate_recommendation_score at line 419; the
\* four conversation sub-scores are not computed without a conversation
ScoreLocals(product, conversation, current_preferences) ==
    [op |-> "calculate_recommendation_score",
     current_request_score |-> current_request_score(product, current_preferences),
     preference_score |-> IF conversation.conversation_id # None
                          THEN preference_score(product, conversation) ELSE NULL,
     mood_score |-> IF conversation.conversation_id # None
                    THEN mood_score(product, conversation) ELSE NULL,
     dietary_score |-> IF conversation.conversation_id # None
                       THEN dietary_score(product, conversation) ELSE NULL,
     budget_score |-> IF conversation.conversation_id # None
                      THEN budget_score(product, conversation, current_preferences)
                      ELSE NULL,
     popularity_score |-> popularity_score(product),
     score |-> calculate_recommendation_score(product, conversation, current_preferences)]

CalculateRecommendationScore ==
    /\ calls < MaxCalls
    /\ \E i \in DOMAIN catalog, message \in Messages,
          conversation_id \in DOMAIN conversations \cup {"conv-unknown"} :
           /\ request' = [op |-> "calculate_recommendation_score",
                          product |-> catalog[i],
                          conversation_id |-> conversation_id,
                          current_message |-> message]
           /\ response' = ScoreLocals(catalog[i], QueryConversation(conversation_id),
                                      FoodPreferencesOf[message])
    /\ calls' = calls + 1
    /\ UNCHANGED <<in_flight, catalog, conversations, recommendation_log,
                   interaction_log>>

NextScore == EngineProcessMessage \/ CalculateRecommendationScore

SpecScore == Init /\ [][NextScore]_vars

(***************************************************************************)
(* process_message when a collaborator fails: the exception passes the     *)
(* handler of line 173, which logs and re-raises; nothing is rolled back   *)
(***************************************************************************)

\* the conversations table after the commits of lines 107 and 136
CommittedConversations(conversation, updated) ==
    [id \in DOMAIN conversations \cup {conversation.conversation_id} |->
        IF id = conversation.conversation_id THEN updated ELSE conversations[id]]

\* what the caller learns when process_message raises
Raised(conversation, step) ==
    [op |-> "process_message_raised", conversation_id |-> conversation.conversation_id,
     raised_at |-> step]

\* gemini_service.generate_response raises at line 139
ResponseGenerationFails ==
    /\ calls < MaxCalls
    /\ \E message \in Messages, conversation_id \in RequestIds :
       \E conversation \in {GetOrCreateConversation(conversation_id)} :
           /\ \/ conversation.conversation_id \in DOMAIN conversations
              \/ Cardinality(DOMAIN conversations) < MaxConversations
           /\ conversations' =
                  CommittedConversations(conversation,
                                         UpdatedConversation(conversation, message))
           /\ request' = [op |-> "process_message", message |-> message,
                          conversation_id |-> conversation_id]
           /\ response' = Raised(conversation, "generate_response")
    /\ calls' = calls + 1
    /\ UNCHANGED <<in_flight, catalog, recommendation_log, interaction_log>>

\* the insert or the commit of the interaction row raises at lines 154-162,
\* after the engine has run and committed its own rows
InteractionLogWriteFails ==
    /\ calls < MaxCalls
    /\ \E message \in Messages, conversation_id \in RequestIds :
       \E fallback_query \in FallbackQueries(message) :
       \E conversation \in {GetOrCreateConversation(conversation_id)} :
       \E updated \in {UpdatedConversation(conversation, message)} :
       \E recommendations \in
              {IF RecommendationsWanted(updated)
               THEN get_personalized_recommendations(catalog, updated, message, 3,
                                                     fallback_query)
               ELSE <<>>} :
           /\ \/ conversation.conversation_id \in DOMAIN conversations
              \/ Cardinality(DOMAIN conversations) < MaxConversations
           /\ conversations' = CommittedConversations(conversation, updated)
           /\ recommendation_log' = LogRecommendations(recommendation_log,
                                                       conversation.conversation_id,
                                                       recommendations)
           /\ request' = [op |-> "process_message", message |-> message,
                          conversation_id |-> conversation_id]
           /\ response' = Raised(conversation, "interaction_log")
    /\ calls' = calls + 1
    /\ UNCHANGED <<in_flight, catalog, interaction_log>>

\* db.query(Product).all() raises at line 183 of the engine; the handler of
\* line 150 of process_message logs the error and goes on with the empty
\* list of line 144
CatalogUnavailable ==
    /\ calls < MaxCalls
    /\ \E message \in Messages, conversation_id \in RequestIds :
       \E conversation \in {GetOrCreateConversation(conversation_id)} :
       \E updated \in {UpdatedConversation(conversation, message)} :
           /\ \/ conversation.conversation_id \in DOMAIN conversations
              \/ Cardinality(DOMAIN conversations) < MaxConversations
           /\ RecommendationsWanted(updated)
           /\ conversations' = CommittedConversations(conversation, updated)
           /\ interaction_log' =
                  Append(interaction_log,
                         [conversation_id |-> conversation.conversation_id,
                          user_message |-> message,
                          interest_score |-> updated.interest_score,
                          engagement_factors |-> ScoreChangeOf[message].engagement_factors])
           /\ request' = [op |-> "process_message", message |-> message,
                          conversation_id |-> conversation_id,
                          catalog |-> "unavailable"]
           /\ response' = [op |-> "process_message",
                           conversation_id |-> conversation.conversation_id,
                           interest_score |-> updated.interest_score,
                           interest_score_change |-> ReportedScoreChange(conversation, message),
                           engagement_factors |-> ScoreChangeOf[message].engagement_factors,
                           recommendations |-> <<>>]
    /\ calls' = calls + 1
    /\ UNCHANGED <<in_flight, catalog, recommendation_log>>

\* the columns and the relationship the mapped class Conversation of
\* models.py declares; its Base is declarative_base(), whose constructor
\* accepts these keywords only
ConversationColumns ==
    {"id", "conversation_id", "user_preferences", "dietary_restrictions",
     "budget_range", "mood_tags", "current_interest_score", "total_interactions",
     "started_at", "last_interaction", "status", "interactions"}

\* the constructor call of lines 99-105 on the mapped class of models.py: a
\* keyword that is no attribute of the class raises TypeError, which the
\* handler of line 173 logs and raises again; nothing was added or committed
NewConversationRejected ==
    /\ calls < MaxCalls
    /\ \E message \in Messages, conversation_id \in RequestIds :
           /\ conversation_id = None \/ conversation_id \notin DOMAIN conversations
           /\ \E keyword \in {"conversation_id", "user_preferences",
                               "dietary_restrictions", "mood_tags", "interest_score"} :
                  keyword \notin ConversationColumns
           /\ request' = [op |-> "process_message", message |-> message,
                          conversation_id |-> conversation_id]
           /\ response' = Raised([conversation_id |-> conversation_id], "Conversation")
    /\ calls' = calls + 1
    /\ UNCHANGED <<in_flight, catalog, conversations, recommendation_log,
                   interaction_log>>

NextFailure ==
    \/ EngineProcessMessage
    \/ ResponseGenerationFails
    \/ InteractionLogWriteFails
    \/ CatalogUnavailable
    \/ NewConversationRejected

SpecFailure == Init /\ [][NextFailure]_vars

(***************************************************************************)
(* POST /chat requests served concurrently.  chat_with_bot and             *)
(* process_message take no lock.  Each request has its own database        *)
(* session.  Inside one worker process the requests are coroutines of one  *)
(* event loop and change hands only at an await: lines 89-136 hold none,   *)
(* line 139 is the first.  Requests of different worker processes on the   *)
(* same database interleave at every statement.                            *)
(***************************************************************************)

WorkerProcesses == {"worker-1", "worker-2"}

\* lines 89-108: the request arrives, the conversation is loaded, or created
\* and committed; no other coroutine of the same event loop is between its
\* load and its commit
LoadConversation ==
    /\ Cardinality(DOMAIN in_flight) < 2
    /\ \E message \in HistoryMessages, conversation_id \in RequestIds,
          worker \in WorkerProcesses :
       \E conversation \in {GetOrCreateConversation(conversation_id)} :
           /\ \/ conversation.conversation_id \in DOMAIN conversations
              \/ Cardinality(DOMAIN conversations) < MaxConversations
           /\ \A t \in DOMAIN in_flight :
                  in_flight[t].worker = worker => in_flight[t].pc # "loaded"
           /\ conversations' = CommittedConversations(conversation, conversation)
           /\ in_flight' = Append(in_flight,
                                  [message |-> message, worker |-> worker, pc |-> "loaded",
                                   found |-> conversation, conversation |-> conversation])
           /\ request' = [op |-> "process_message", message |-> message,
                          conversation_id |-> conversation_id]
    /\ UNCHANGED <<catalog, recommendation_log, interaction_log, response, calls>>

\* the row after db.commit(): the UPDATE sets the attributes the request
\* changed on its object and leaves the other columns as they are stored
WrittenBack(stored, found, updated) ==
    [conversation_id |-> stored.conversation_id,
     budget_range |-> stored.budget_range,
     interest_score |-> IF updated.interest_score # found.interest_score
                        THEN updated.interest_score ELSE stored.interest_score,
     user_preferences |-> IF updated.user_preferences # found.user_preferences
                          THEN updated.user_preferences ELSE stored.user_preferences,
     dietary_restrictions |-> IF updated.dietary_restrictions # found.dietary_restrictions
                              THEN updated.dietary_restrictions
                              ELSE stored.dietary_restrictions,
     mood_tags |-> IF updated.mood_tags # found.mood_tags
                   THEN updated.mood_tags ELSE stored.mood_tags]

\* lines 111-136: the score and the preferences are updated on the loaded
\* object and committed
CommitUpdate ==
    /\ \E t \in DOMAIN in_flight :
       \E updated \in {UpdatedConversation(in_flight[t].conversation,
                                           in_flight[t].message)} :
           /\ in_flight[t].pc = "loaded"
           /\ conversations' =
                  [conversations EXCEPT ![updated.conversation_id] =
                      WrittenBack(@, in_flight[t].found, updated)]
           /\ in_flight' = [in_flight EXCEPT ![t].pc = "committed",
                                             ![t].conversation = updated]
    /\ UNCHANGED <<catalog, recommendation_log, interaction_log, request, response,
                   calls>>

\* lines 139-171, after the await of line 139: the commit has expired the
\* object, so line 145 and the engine read the stored row; new_score and
\* score_change are the locals of lines 111-116
Respond ==
    /\ \E t \in DOMAIN in_flight :
       \E fallback_query \in FallbackQueries(in_flight[t].message) :
       \E stored \in {conversations[in_flight[t].conversation.conversation_id]} :
       \E recommendations \in
              {IF RecommendationsWanted(stored)
               THEN get_personalized_recommendations(catalog, stored, in_flight[t].message,
                                                     3, fallback_query)
               ELSE <<>>} :
           /\ in_flight[t].pc = "committed"
           /\ recommendation_log' = LogRecommendations(recommendation_log,
                                                       stored.conversation_id,
                                                       recommendations)
           /\ interaction_log' =
                  Append(interaction_log,
                         [conversation_id |-> stored.conversation_id,
                          user_message |-> in_flight[t].message,
                          interest_score |-> in_flight[t].conversation.interest_score,
                          engagement_factors |->
                              ScoreChangeOf[in_flight[t].message].engagement_factors])
           /\ response' = [op |-> "process_message",
                           conversation_id |-> stored.conversation_id,
                           interest_score |-> in_flight[t].conversation.interest_score,
                           interest_score_change |->
                               ReportedScoreChange(in_flight[t].found, in_flight[t].message),
                           engagement_factors |->
                               ScoreChangeOf[in_flight[t].message].engagement_factors,
                           recommendations |-> recommendations]
           /\ in_flight' = [in_flight EXCEPT ![t].pc = "done"]
    /\ UNCHANGED <<catalog, conversations, request, calls>>

\* a message answered before the concurrent ones builds the stored conversation
NextConcurrent ==
    \/ in_flight = <<>> /\ EngineProcessMessage
    \/ LoadConversation
    \/ CommitUpdate
    \/ Respond

SpecConcurrent == Init /\ [][NextConcurrent]_vars

(***************************************************************************)
(* GET /products                                                           *)
(***************************************************************************)

CategoryInputs == {None, "Burgers", "pizza"}
MinPriceInputs == {NULL, 5}
MaxPriceInputs == {NULL, 10}
MoodTagInputs == {None, "healthy"}

GetFilteredProducts ==
    /\ calls < MaxCalls
    /\ \E category \in CategoryInputs, min_price \in MinPriceInputs,
          max_price \in MaxPriceInputs,
          dietary_tags \in DietaryTagInputs \cup {None},
          mood_tags \in MoodTagInputs :
        \E query_result \in
               OrderByPopularityDesc(BasicCriteria(catalog, category, min_price, max_price)) :
            /\ calls' = calls + 1
            /\ request' = [op |-> "get_filtered_products", category |-> category,
                           min_price |-> min_price, max_price |-> max_price,
                           dietary_tags |-> dietary_tags, mood_tags |-> mood_tags]
            /\ response' = [op |-> "get_filtered_products",
                            products |-> get_filtered_products(query_result, dietary_tags,
                                                               mood_tags)]
            /\ UNCHANGED <<in_flight, catalog, conversations, recommendation_log,
                           interaction_log>>

\* _strict_dietary_filter called on the products table with one restriction
\* list, on its own result with the same list and with a second list, and on
\* the table with the two lists concatenated
StrictDietaryFilter ==
    /\ calls < MaxCalls
    /\ \E first, second \in {<<>>, <<"vegetarian">>, <<"keto">>, <<"Vegetarian">>,
                             <<"vegetarian", "keto">>, <<"vegan", "gluten-free">>} :
           /\ request' = [op |-> "_strict_dietary_filter", products |-> catalog,
                          first |-> first, second |-> second]
           /\ response' =
                  [op |-> "_strict_dietary_filter",
                   first |-> strict_dietary_filter(catalog, first),
                   first_again |->
                       strict_dietary_filter(strict_dietary_filter(catalog, first), first),
                   first_then_second |->
                       strict_dietary_filter(strict_dietary_filter(catalog, first), second),
                   concatenated |-> strict_dietary_filter(catalog, first \o second)]
    /\ calls' = calls + 1
    /\ UNCHANGED <<in_flight, catalog, conversations, recommendation_log,
                   interaction_log>>

NextFilter == GetFilteredProducts \/ StrictDietaryFilter

SpecFilter == Init /\ [][NextFilter]_vars

(***************************************************************************)
(* Properties of the interest score (checked under Spec)                   *)
(***************************************************************************)

\* the interest score the conversation of the current response had before
\* the message: the score logged by its previous interaction, 0 when the
\* conversation was created by this message
ScoreBefore ==
    LET n == Len(interaction_log)
        earlier == {i \in 1..(n - 1) :
                       interaction_log[i].conversation_id = response.conversation_id}
    IN  IF earlier = {} THEN 0
        ELSE interaction_log[CHOOSE i \in earlier : \A j \in earlier : j <= i].interest_score

\* C1: after any sequence of messages processed on a conversation created
\* with score 0, the interest score is within [0, 100] after every message:
\* in the stored row, in every logged interaction and in the returned value.
C1_InterestScoreWithinRange ==
    /\ \A id \in DOMAIN conversations : conversations[id].interest_score \in 0..100
    /\ \A i \in DOMAIN interaction_log : interaction_log[i].interest_score \in 0..100
    /\ response.op = "process_message" =>
           /\ response.interest_score \in 0..100
           /\ response.interest_score = conversations[response.conversation_id].interest_score

\* a second message on a conversation with a positive score pushes the
\* unclamped sum above 100 and the stored score is 100
C1_ClampedAbove ==
    /\ response.op = "process_message"
    /\ Len(interaction_log) = 2
    /\ ScoreBefore > 0
    /\ ScoreBefore + ScoreChangeOf[request.message].score_change > 100
    /\ conversations[response.conversation_id].interest_score = 100

\* C2: the raw delta of a message is the sum of the fixed weights of the
\* factors it triggers, each factor counted once however many of its
\* keywords match, and one description is recorded per triggered factor;
\* "i'll take it" gives +30 and "maybe amazing" gives -2.
C2_DeltaIsSumOfTriggeredWeights ==
    request.op = "process_message" =>
        LET message == request.message
            ml == Lower(message)
            W(flag, w) == IF flag THEN w ELSE 0
            total ==
                W(specific_prefs_found(ml) > 0, 15) + W(dietary_found(ml), 10)
                + W(budget_mentioned(ml), 5) + W(mood_found(ml), 20)
                + W(question_found(message, ml), 10) + W(enthusiasm_found(ml) > 0, 8)
                + W(price_inquiry(ml), 25) + W(order_intent(ml), 30)
                + W(hesitation_found(ml), -10) + W(budget_concern(ml), -15)
                + W(rejection_found(ml), -25)
            triggered ==
                W(specific_prefs_found(ml) > 0, 1) + W(dietary_found(ml), 1)
                + W(budget_mentioned(ml), 1) + W(mood_found(ml), 1)
                + W(question_found(message, ml), 1) + W(enthusiasm_found(ml) > 0, 1)
                + W(price_inquiry(ml), 1) + W(order_intent(ml), 1)
                + W(hesitation_found(ml), 1) + W(budget_concern(ml), 1)
                + W(rejection_found(ml), 1)
        IN  /\ ScoreChangeOf[message].score_change = total
            /\ Len(response.engagement_factors) = triggered
            /\ message = "i'll take it" => ScoreChangeOf[message].score_change = 30
            /\ message = "maybe amazing" => ScoreChangeOf[message].score_change = -2

\* a processed message in which two factors are each matched by more than
\* one keyword, and several factors are triggered together
C2_SeveralKeywordsOfOneFactor ==
    /\ request.op = "process_message"
    /\ enthusiasm_found(Lower(request.message)) > 1
    /\ specific_prefs_found(Lower(request.message)) > 1
    /\ Len(response.engagement_factors) > 2
    /\ ScoreChangeOf[request.message].score_change = 123

\* C3: the interest_score_change that process_message reports equals the
\* conversation's interest score after the message minus its interest score
\* before the message.
C3_ReportedChangeIsAppliedChange ==
    response.op = "process_message" =>
        response.interest_score_change = response.interest_score - ScoreBefore

\* a response whose reported change is the raw delta while the clamp applied
\* a different one
C3_ReportedRawDelta ==
    /\ response.op = "process_message"
    /\ response.interest_score_change = ScoreChangeOf[request.message].score_change
    /\ response.interest_score_change # response.interest_score - ScoreBefore

(***************************************************************************)
(* Properties of get_personalized_recommendations (checked under           *)
(* SpecEngine); the engine is called by POST /chat with limit 3 when the   *)
(* interest score exceeds 30, and directly                                 *)
(***************************************************************************)

\* the current response is the result of an engine call
EngineCalled ==
    \/ response.op = "get_personalized_recommendations"
    \/ response.op = "process_message" /\ response.interest_score > 30

\* the arguments of that call
CallConversation ==
    IF response.op = "process_message" THEN conversations[response.conversation_id]
    ELSE QueryConversation(request.conversation_id)

CallMessage ==
    IF response.op = "process_message" THEN request.message ELSE request.current_message

CallLimit == IF response.op = "process_message" THEN 3 ELSE request.limit

\* the active restrictions of the call: those detected in the current
\* message together with those stored on the conversation
ActiveRestrictions ==
    LET detected == FoodPreferencesOf[CallMessage].dietary
        stored == CallConversation.dietary_restrictions
    IN  {detected[i] : i \in DOMAIN detected} \cup {stored[i] : i \in DOMAIN stored}

\* a product passes a restriction when it carries the tag, or when it is
\* not 'vegetarian'/'vegan' and no exclusion term occurs in the product text
Passes(product, restriction) ==
    \/ ProductFacts[product].tag[restriction]
    \/ /\ ~ProductFacts[product].exclusion[restriction]
       /\ restriction \notin {"vegetarian", "vegan"}

CatalogProducts == {catalog[i] : i \in DOMAIN catalog}

\* the catalog products that pass every active restriction
Compliant == {p \in CatalogProducts : \A r \in ActiveRestrictions : Passes(p, r)}

\* the call returned the sentinel
SentinelReturned ==
    /\ Len(response.recommendations) = 1
    /\ response.recommendations[1].product_id = "no_match"

\* the primary top-K list of the call, as it would be returned
PrimaryList ==
    LET top == PrimaryTop(catalog, CallConversation, FoodPreferencesOf[CallMessage],
                          CallLimit)
    IN  [i \in DOMAIN top |-> FormatRecommendation(top[i])]

\* the compliant products whose category matches the first mentioned category
FallbackCandidates ==
    LET categories == FoodPreferencesOf[CallMessage].categories
    IN  IF Len(categories) = 0 THEN {}
        ELSE {p \in Compliant : Contains(Lower(categories[1]), Lower(p.category))}

\* the call took the fallback: the primary list is empty or all below 30, a
\* category is mentioned and the category has a compliant product
FallbackTaken ==
    /\ EngineCalled
    /\ ~SentinelReturned
    /\ \A i \in DOMAIN PrimaryList : PrimaryList[i].recommendation_score < 3000
    /\ FallbackCandidates # {}

FallbackReasons ==
    <<"Popular " \o FoodPreferencesOf[CallMessage].categories[1]
          \o " option that meets your dietary requirements",
      "High customer rating">>

\* C4: every non-sentinel product returned by get_personalized_recommendations,
\* from the primary ranking or from the fallback, is a catalog product that
\* passes every active restriction.
C4_ReturnedProductsAreCompliant ==
    EngineCalled =>
        \A i \in DOMAIN response.recommendations :
            response.recommendations[i].product_id # "no_match" =>
                \E p \in Compliant : p.product_id = response.recommendations[i].product_id

\* a fallback result under active restrictions, where the mentioned category
\* also holds a product that fails a restriction
C4_FallbackUnderRestrictions ==
    /\ FallbackTaken
    /\ ActiveRestrictions # {}
    /\ response.recommendations[1].reasons = FallbackReasons
    /\ \E p \in CatalogProducts \ Compliant :
           Contains(Lower(FoodPreferencesOf[CallMessage].categories[1]), Lower(p.category))

\* C8: when a restriction is active and no catalog product passes all of
\* them, the result is exactly one entry, with product_id 'no_match' and
\* recommendation_score 0, whose description names every active restriction.
C8_SentinelWhenNothingCompliant ==
    (EngineCalled /\ ActiveRestrictions # {} /\ Compliant = {}) =>
        /\ Len(response.recommendations) = 1
        /\ response.recommendations[1].product_id = "no_match"
        /\ response.recommendations[1].recommendation_score = 0
        /\ \A r \in ActiveRestrictions :
               Contains(r, response.recommendations[1].description)

\* two restrictions are active, the catalog has products, none passes, and
\* the sentinel is returned
C8_SentinelReturned ==
    /\ EngineCalled
    /\ Cardinality(ActiveRestrictions) > 1
    /\ CatalogProducts # {}
    /\ Compliant = {}
    /\ SentinelReturned

\* C9: where the call ranks candidates, the result differs from the primary
\* top-K list only when that list is empty or all its entries score below 30
\* and a category is mentioned; so with an entry scoring 30 or more, or with
\* no category mentioned, the primary list is returned unchanged.
C9_FallbackOnlyWhenPrimaryWeak ==
    (EngineCalled /\ ~SentinelReturned) =>
        /\ response.recommendations # PrimaryList =>
               /\ \A i \in DOMAIN PrimaryList : PrimaryList[i].recommendation_score < 3000
               /\ Len(FoodPreferencesOf[CallMessage].categories) > 0
               /\ \A i \in DOMAIN response.recommendations :
                      response.recommendations[i].reasons = FallbackReasons
        /\ ((\E i \in DOMAIN PrimaryList : PrimaryList[i].recommendation_score >= 3000)
            \/ Len(FoodPreferencesOf[CallMessage].categories) = 0) =>
               response.recommendations = PrimaryList

\* a category is mentioned, the mentioned category has compliant products,
\* the primary list holds an entry scoring 30 or more and is returned as it is
C9_StrongPrimaryKept ==
    /\ EngineCalled
    /\ ~SentinelReturned
    /\ FallbackCandidates # {}
    /\ \E i \in DOMAIN PrimaryList : PrimaryList[i].recommendation_score >= 3000
    /\ response.recommendations = PrimaryList

\* C10: when the fallback is taken, the returned entries are the compliant
\* products of the first mentioned category in descending order of raw
\* popularity, truncated to K, each with score = popularity + 20 (50 + 20
\* when the popularity is unset) and exactly the two fixed reasons.
C10_FallbackEntries ==
    FallbackTaken =>
        LET recs == response.recommendations
            returned == {recs[i].product_id : i \in DOMAIN recs}
        IN  /\ Len(recs) = Min(CallLimit, Cardinality(FallbackCandidates))
            /\ Cardinality(returned) = Len(recs)
            /\ \A i \in DOMAIN recs :
                   /\ \E p \in FallbackCandidates : p.product_id = recs[i].product_id
                   /\ recs[i].recommendation_score =
                          100 * ((IF recs[i].popularity_score = NULL THEN 50
                                  ELSE recs[i].popularity_score) + 20)
                   /\ recs[i].reasons = FallbackReasons
            /\ \A i, j \in DOMAIN recs :
                   (i < j /\ recs[i].popularity_score # NULL /\ recs[j].popularity_score # NULL)
                       => recs[i].popularity_score >= recs[j].popularity_score
            /\ \A p \in FallbackCandidates :
                   (p.product_id \notin returned /\ p.popularity_score # NULL) =>
                       \A i \in DOMAIN recs :
                           recs[i].popularity_score # NULL =>
                               recs[i].popularity_score >= p.popularity_score

\* a fallback entry whose popularity is 0 and whose score is 70
C10_ZeroPopularityScoredAsUnset ==
    /\ FallbackTaken
    /\ \E i \in DOMAIN response.recommendations :
           /\ response.recommendations[i].popularity_score = 0
           /\ response.recommendations[i].recommendation_score = 7000

\* the candidates STEP 4 scores, in the order of the catalog query result:
\* the compliant products left by the category and budget steps
RankCandidates ==
    BudgetStep(CategoryStep(strict_dietary_filter(catalog,
                                all_dietary_restrictions(CallConversation,
                                                         FoodPreferencesOf[CallMessage])),
                            FoodPreferencesOf[CallMessage].categories),
               FoodPreferencesOf[CallMessage].budget)

\* the score STEP 4 gives a candidate
CandidateScore(product) ==
    calculate_recommendation_score(product, CallConversation, FoodPreferencesOf[CallMessage])
    + (IF ActiveRestrictions # {} THEN 2000 ELSE 0)

\* the call returned the primary ranked list: neither the sentinel nor
\* fallback entries, which alone carry the reason 'High customer rating'
PrimaryReturned ==
    /\ EngineCalled
    /\ ~SentinelReturned
    /\ \A i \in DOMAIN response.recommendations :
           ~InList("High customer rating", response.recommendations[i].reasons)

\* the position of a returned entry among the candidates
CandidateIndex(product_id) ==
    CHOOSE k \in DOMAIN RankCandidates : RankCandidates[k].product_id = product_id

\* C11: the primary ranked list holds min(K, number of candidates) entries,
\* each a different candidate, in non-increasing order of score; no candidate
\* left out scores more than a returned one; and candidates of equal score
\* keep the order of the catalog query result, inside the list and across
\* the cut after the K-th entry.
C11_TopKStableDescending ==
    PrimaryReturned =>
        LET recs == response.recommendations
            returned == {recs[i].product_id : i \in DOMAIN recs}
            left_out == {k \in DOMAIN RankCandidates :
                            RankCandidates[k].product_id \notin returned}
        IN  /\ Len(recs) <= CallLimit
            /\ Len(recs) = Min(CallLimit, Len(RankCandidates))
            /\ Cardinality(returned) = Len(recs)
            /\ \A i \in DOMAIN recs :
                   \E k \in DOMAIN RankCandidates :
                       RankCandidates[k].product_id = recs[i].product_id
            /\ \A i, j \in DOMAIN recs :
                   i < j =>
                       /\ recs[i].recommendation_score >= recs[j].recommendation_score
                       /\ recs[i].recommendation_score = recs[j].recommendation_score
                              => CandidateIndex(recs[i].product_id)
                                     < CandidateIndex(recs[j].product_id)
            /\ \A k \in left_out, i \in DOMAIN recs :
                   /\ recs[i].recommendation_score >= CandidateScore(RankCandidates[k])
                   /\ recs[i].recommendation_score = CandidateScore(RankCandidates[k])
                          => CandidateIndex(recs[i].product_id) < k

\* K = 1 and two candidates of equal score: the one returned is the first of
\* the two in the catalog query result, here the row with the later product id
C11_TieCutInCatalogOrder ==
    /\ PrimaryReturned
    /\ CallLimit = 1
    /\ Len(response.recommendations) = 1
    /\ response.recommendations[1].product_id = "BR002"
    /\ \E k \in DOMAIN RankCandidates :
           /\ RankCandidates[k].product_id = "BR001"
           /\ CandidateScore(RankCandidates[k])
                  = response.recommendations[1].recommendation_score
           /\ CandidateIndex("BR002") < k

(***************************************************************************)
(* The score of a ranked candidate (checked under Spec, where every engine *)
(* call is made by POST /chat for the conversation row of the message)     *)
(***************************************************************************)

\* the catalog row of a returned entry
ProductOf(product_id) == CHOOSE p \in CatalogProducts : p.product_id = product_id

\* C13: the score of every entry of a returned primary list, in hundredths,
\* is 40 x current-request + 20 x historical-preference + 15 x mood
\* + 15 x dietary-compatibility + 5 x budget-fit + 5 x popularity over the six
\* sub-scores of its product, plus 2000 (a flat 20) exactly when a
\* restriction of the message or of the conversation is active.
C13_ScoreIsWeightedSumPlusBonus ==
    PrimaryReturned =>
        \A i \in DOMAIN response.recommendations :
            LET product == ProductOf(response.recommendations[i].product_id)
                current_preferences == FoodPreferencesOf[CallMessage]
                weighted ==
                    40 * current_request_score(product, current_preferences)
                    + 20 * preference_score(product, CallConversation)
                    + 15 * mood_score(product, CallConversation)
                    + 15 * dietary_score(product, CallConversation)
                    + 5 * budget_score(product, CallConversation, current_preferences)
                    + 5 * popularity_score(product)
            IN  /\ ActiveRestrictions # {} =>
                       response.recommendations[i].recommendation_score = weighted + 2000
                /\ ActiveRestrictions = {} =>
                       response.recommendations[i].recommendation_score = weighted

\* a returned entry whose six sub-scores are all positive and differ in the
\* preference and mood terms, without the bonus; and the same run on a
\* conversation with an active restriction is covered by the invariant
C13_AllSixTermsCount ==
    /\ PrimaryReturned
    /\ ActiveRestrictions = {}
    /\ \E i \in DOMAIN response.recommendations :
           LET product == ProductOf(response.recommendations[i].product_id)
               current_preferences == FoodPreferencesOf[CallMessage]
           IN  /\ current_request_score(product, current_preferences) > 0
               /\ preference_score(product, CallConversation) > 0
               /\ mood_score(product, CallConversation) > 0
               /\ preference_score(product, CallConversation)
                      # mood_score(product, CallConversation)
               /\ dietary_score(product, CallConversation) > 0
               /\ budget_score(product, CallConversation, current_preferences) > 0
               /\ response.recommendations[i].recommendation_score = 7000

(***************************************************************************)
(* Properties of the sub-scores (checked under SpecScore)                  *)
(***************************************************************************)

ScoreCalled == response.op = "calculate_recommendation_score"

\* the number of elements of a list that satisfy a test
CountOf(list, Test(_)) == Cardinality({i \in DOMAIN list : Test(list[i])})

\* C14: the current-request sub-score is clamp(80 if the product's category
\* or name matches some mentioned category + 50 per just-mentioned dietary
\* type among the product's tags - 30 per just-mentioned dietary type not
\* among them + 15 per just-mentioned mood among its mood tags, 0, 100); the
\* 80 is added once however many mentioned categories match.
C14_CurrentRequestSubScore ==
    ScoreCalled =>
        LET product == request.product
            current_preferences == FoodPreferencesOf[request.current_message]
            CategoryHit(category) ==
                \/ Contains(Lower(category), Lower(product.category))
                \/ AnyIn(CategoryKeywordsGet(category), Lower(product.name))
            Tagged(dietary) == InList(Lower(dietary), LowerAll(product.dietary_tags))
            Untagged(dietary) == ~Tagged(dietary)
            MoodHit(mood) == InList(mood, product.mood_tags)
            raw == (IF CountOf(current_preferences.categories, CategoryHit) > 0
                    THEN 80 ELSE 0)
                   + 50 * CountOf(current_preferences.dietary, Tagged)
                   - 30 * CountOf(current_preferences.dietary, Untagged)
                   + 15 * CountOf(current_preferences.moods, MoodHit)
        IN  response.current_request_score = Max(0, Min(100, raw))

\* two mentioned categories match the product, one by its category and one
\* by a keyword in its name, a mood matches too, and the sub-score is
\* 80 + 15
C14_TwoCategoriesOneBonus ==
    /\ ScoreCalled
    /\ Len(FoodPreferencesOf[request.current_message].categories) = 2
    /\ \A i \in 1..2 :
           ProductFacts[request.product].category[
               FoodPreferencesOf[request.current_message].categories[i]]
    /\ response.current_request_score = 95

\* the budget the score is computed for: the one of the message, else the
\* stored one
ScoredBudget ==
    IF FoodPreferencesOf[request.current_message].budget # None
    THEN FoodPreferencesOf[request.current_message].budget
    ELSE conversations[request.conversation_id].budget_range

\* the budget sub-score is computed only for a stored conversation
BudgetScored == ScoreCalled /\ request.conversation_id \in DOMAIN conversations

\* C15: for a product of price p, the budget-fit sub-score against
\* 'under $X' is 100 if p <= X and max(0, 100 - 10*(p - X)) otherwise, and
\* against 'around $X' it is max(0, 100 - 5*|p - X|); price 12 scores 80
\* against 'under $10' and 90 against 'around $10'.
C15_BudgetFitSubScore ==
    BudgetScored =>
        LET p == request.product.price
        IN  /\ \A X \in 0..20 :
                 /\ ScoredBudget = "under $" \o ToString(X) \o ".0" =>
                        response.budget_score =
                            IF p <= X THEN 100 ELSE Max(0, 100 - 10 * (p - X))
                 /\ ScoredBudget = "around $" \o ToString(X) \o ".0" =>
                        response.budget_score =
                            Max(0, 100 - 5 * (IF p >= X THEN p - X ELSE X - p))
            /\ p = 12 /\ ScoredBudget = "under $10.0" => response.budget_score = 80
            /\ p = 12 /\ ScoredBudget = "around $10.0" => response.budget_score = 90

\* a product of price 12 scored against 'under $10'
C15_TwelveAgainstUnderTen ==
    /\ BudgetScored
    /\ request.product.price = 12
    /\ ScoredBudget = "under $10.0"
    /\ response.budget_score = 80

\* C16: the popularity sub-score used in ranking equals the product's raw
\* popularity for every set value in 0..100, 0 included, and is 50 only when
\* the popularity is unset.
C16_PopularityIsRawUnlessUnset ==
    ScoreCalled =>
        response.popularity_score =
            IF request.product.popularity_score = NULL
            THEN 50 ELSE request.product.popularity_score

\* a product whose popularity is set to 0 is scored like one without a
\* popularity
C16_ZeroPopularityScoredFifty ==
    /\ ScoreCalled
    /\ request.product.popularity_score = 0
    /\ response.popularity_score = 50

(***************************************************************************)
(* The reasons of returned recommendations (checked under Spec)            *)
(***************************************************************************)

\* the reasons that apply to a product in the call, in the priority order
\* category match, dietary match, mood match, historical preference match,
\* budget fit, chef-special, limited-time, high-popularity
ApplicableReasons(product) ==
    LET current_preferences == FoodPreferencesOf[CallMessage]
        budget == IF current_preferences.budget # None
                  THEN current_preferences.budget ELSE CallConversation.budget_range
        CategoryNamed(category) == Contains(Lower(category), Lower(product.category))
        Tagged(dietary) == InList(Lower(dietary), LowerAll(product.dietary_tags))
        MoodTagged(mood) == InList(mood, product.mood_tags)
        Liked(pref) == \/ Contains(Lower(pref), Lower(product.name))
                       \/ Contains(Lower(pref), Lower(product.description))
        Affordable(X) == /\ budget = "under $" \o ToString(X) \o ".0"
                         /\ product.price <= X
        categories == SelectSeq(current_preferences.categories, CategoryNamed)
        dietary == SelectSeq(current_preferences.dietary, Tagged)
        moods == SelectSeq(current_preferences.moods, MoodTagged)
        liked == SelectSeq(CallConversation.user_preferences, Liked)
    IN  (IF Len(categories) > 0
         THEN <<"Perfect " \o categories[1] \o " match for your request">> ELSE <<>>)
        \o [i \in DOMAIN dietary |-> "Meets your " \o dietary[i] \o " requirements"]
        \o [i \in DOMAIN moods |-> "Great for a " \o moods[i] \o " meal"]
        \o (IF CallConversation.conversation_id # None /\ Len(liked) > 0
            THEN <<"Matches your preference for " \o liked[1]>> ELSE <<>>)
        \o (IF CallConversation.conversation_id # None /\ \E X \in 0..20 : Affordable(X)
            THEN <<"Within your $" \o ToString(CHOOSE X \in 0..20 : Affordable(X))
                      \o ".0 budget">>
            ELSE <<>>)
        \o (IF product.chef_special THEN <<"Chef's special recommendation">> ELSE <<>>)
        \o (IF product.limited_time THEN <<"Limited time offer">> ELSE <<>>)
        \o (IF product.popularity_score # NULL /\ product.popularity_score > 80
            THEN <<"Highly popular choice">> ELSE <<>>)

\* C17: every returned recommendation carries at most 3 reasons, and those
\* of an entry of the ranked list are the first three applicable reasons in
\* the order category match, dietary match, mood match, historical
\* preference match, budget fit, chef-special, limited-time,
\* high-popularity: no lower-priority reason is emitted while an applicable
\* higher-priority one is omitted.
C17_FirstThreeApplicableReasons ==
    /\ EngineCalled =>
           \A i \in DOMAIN response.recommendations :
               Len(response.recommendations[i].reasons) <= 3
    /\ PrimaryReturned =>
           \A i \in DOMAIN response.recommendations :
               LET applicable == ApplicableReasons(ProductOf(response.recommendations[i].product_id))
               IN  response.recommendations[i].reasons =
                       SubSeq(applicable, 1, Min(3, Len(applicable)))

\* a returned entry to which more than three reasons apply
C17_ApplicableReasonCut ==
    /\ PrimaryReturned
    /\ \E i \in DOMAIN response.recommendations :
           /\ Len(ApplicableReasons(ProductOf(response.recommendations[i].product_id))) > 3
           /\ Len(response.recommendations[i].reasons) = 3

(***************************************************************************)
(* The stored collections of a conversation (checked under Spec)           *)
(***************************************************************************)

ElementsOf(list) == {list[i] : i \in DOMAIN list}

\* the list new holds the elements of the list old and those of yields, each
\* once, the elements of old first and in their order; it is old when yields
\* brings nothing new
GrownByUnion(old, new, yields) ==
    /\ ElementsOf(new) = ElementsOf(old) \cup ElementsOf(yields)
    /\ Cardinality(ElementsOf(new)) = Len(new)
    /\ Len(old) <= Len(new) /\ SubSeq(new, 1, Len(old)) = old
    /\ ElementsOf(yields) \subseteq ElementsOf(old) => new = old

\* what the message of the step yields for a conversation: the extracted
\* preferences for the conversation the message is processed on, nothing for
\* any other
YieldedFor(conversation_id, message_response, message_request) ==
    IF message_response.op = "process_message"
       /\ message_response.conversation_id = conversation_id
    THEN PreferencesOf[message_request.message]
    ELSE [specific_prefs |-> <<>>, dietary |-> <<>>, moods |-> <<>>]

C19_GateAboveThirty ==
    [][response'.op = "process_message" =>
          /\ response'.interest_score =
                 conversations'[response'.conversation_id].interest_score
          /\ response'.interest_score <= 30 =>
                 /\ response'.recommendations = <<>>
                 /\ recommendation_log' = recommendation_log]_vars

\* a message brings the score to exactly 30 on a stocked catalog: nothing is
\* recommended and nothing is logged
C19_ExactlyThirtyRecommendsNothing ==
    /\ response.op = "process_message"
    /\ response.interest_score = 30
    /\ conversations[response.conversation_id].interest_score = 30
    /\ response.recommendations = <<>>
    /\ Len(catalog) > 0
    /\ recommendation_log = {}

(***************************************************************************)
(* A message whose processing fails (checked under SpecFailure)            *)
(***************************************************************************)

\* the interest score and the preference sets of a conversation row
ScoreAndPreferences(conversation) ==
    [interest_score |-> conversation.interest_score,
     user_preferences |-> conversation.user_preferences,
     dietary_restrictions |-> conversation.dietary_restrictions,
     mood_tags |-> conversation.mood_tags]

\* C20: when processing a message fails, the persisted conversation state is
\* not partially applied: the stored interest score and preference sets of
\* every conversation equal their values before that message.
C20_FailedMessageLeavesConversation ==
    [][response'.op = "process_message_raised" =>
          \A id \in DOMAIN conversations :
              ScoreAndPreferences(conversations'[id]) =
                  ScoreAndPreferences(conversations[id])]_vars

\* the only message ever answered stored the restriction 'vegetarian' and
\* its score; after a message that failed, the stored score and restrictions
\* are others
C20_FailedMessageApplied ==
    /\ response.op = "process_message_raised"
    /\ Len(interaction_log) = 1
    /\ interaction_log[1].conversation_id = response.conversation_id
    /\ interaction_log[1].user_message = "I am vegetarian"
    /\ conversations[response.conversation_id].interest_score
           # interaction_log[1].interest_score
    /\ conversations[response.conversation_id].dietary_restrictions # <<"vegetarian">>

\* the catalog could not be read while the request was processed
CatalogWasUnavailable(message_request) ==
    /\ "catalog" \in DOMAIN message_request
    /\ message_request.catalog = "unavailable"

\* C21: when the catalog is unavailable while recommendations are computed
\* for a message whose score passes the threshold, process_message raises:
\* it does not return a normal response.
C21_CatalogFailurePropagates ==
    [][CatalogWasUnavailable(request') => response'.op = "process_message_raised"]_vars

\* the catalog was unavailable for a message that passed the threshold, and
\* the caller got a normal response with no recommendation
C21_CatalogFailureSwallowed ==
    /\ CatalogWasUnavailable(request)
    /\ response.op = "process_message"
    /\ response.interest_score > 30
    /\ response.recommendations = <<>>
    /\ Len(catalog) > 0

(***************************************************************************)
(* Two concurrent messages (checked under SpecConcurrent)                  *)
(***************************************************************************)

\* two requests for one conversation have been answered
BothAnswered ==
    /\ Len(in_flight) = 2
    /\ in_flight[1].pc = "done" /\ in_flight[2].pc = "done"
    /\ in_flight[1].found.conversation_id = in_flight[2].found.conversation_id

\* the row the first request found, after the message of request a and then
\* the message of request b
OneAfterTheOther(a, b) ==
    ScoreAndPreferences(
        UpdatedConversation(UpdatedConversation(in_flight[1].found, in_flight[a].message),
                            in_flight[b].message))

\* C23: when two messages for one conversation id are processed
\* concurrently, the final stored interest score and preference sets are
\* those of processing the two messages one after the other in some order.
C23_NoLostUpdate ==
    BothAnswered =>
        ScoreAndPreferences(conversations[in_flight[1].found.conversation_id])
            \in {OneAfterTheOther(1, 2), OneAfterTheOther(2, 1)}

\* both requests, for a conversation stored by an earlier message, are
\* answered and the stored score is the one of the second message alone:
\* the update of the first is lost
C23_UpdateLost ==
    /\ BothAnswered
    /\ Len(interaction_log) = 3
    /\ interaction_log[1].conversation_id = in_flight[1].found.conversation_id
    /\ in_flight[1].found = in_flight[2].found
    /\ in_flight[1].conversation.interest_score > in_flight[1].found.interest_score
    /\ in_flight[2].conversation.interest_score > in_flight[2].found.interest_score
    /\ conversations[in_flight[1].found.conversation_id].interest_score
           = in_flight[2].conversation.interest_score
    /\ conversations[in_flight[1].found.conversation_id].interest_score
           < OneAfterTheOther(1, 2).interest_score

(***************************************************************************)
(* Running the engine twice (checked under SpecRepeat)                     *)
(***************************************************************************)

\* a step that runs the call of `request` once more
SecondRun == calls >= 1 /\ calls' = calls + 1 /\ request' = request

AppendFailed == "append" \in DOMAIN request /\ request.append = "fails"

FilterCalled == response.op = "get_filtered_products"

\* the restriction labels of the request, as the filter receives them
RequestedLabels ==
    IF request.dietary_tags = None THEN <<>> ELSE SplitStrip(request.dietary_tags)

\* every label of the request is written in lower case
LabelsInLowerCase == \A i \in DOMAIN RequestedLabels : Lower(RequestedLabels[i]) = RequestedLabels[i]

\* the catalog products the other criteria of the request select: category,
\* price range and mood
Candidates ==
    {p \in CatalogProducts :
        /\ request.category = None \/ Contains(Lower(request.category), Lower(p.category))
        /\ request.min_price = NULL \/ p.price >= request.min_price
        /\ request.max_price = NULL \/ p.price <= request.max_price
        /\ request.mood_tags = None
               \/ \E m \in DOMAIN SplitStrip(request.mood_tags) :
                      InList(SplitStrip(request.mood_tags)[m], p.mood_tags)}

ReturnedIds == {response.products[i].product_id : i \in DOMAIN response.products}

\* C5: the filter keeps a product if and only if it passes every restriction
\* of the request, and keeps it once; a product passes a restriction when it
\* carries the tag, and otherwise fails it when an exclusion term of the
\* restriction occurs in its text (labels in lower case).
C5_KeptIffPassesEveryRestriction ==
    (FilterCalled /\ LabelsInLowerCase) =>
        /\ ReturnedIds =
               {p.product_id : p \in {q \in Candidates :
                                         \A i \in DOMAIN RequestedLabels :
                                             Passes(q, RequestedLabels[i])}}
        /\ Cardinality(ReturnedIds) = Len(response.products)
        /\ \A p \in Candidates, i \in DOMAIN RequestedLabels :
               /\ HasDietaryTag(p, RequestedLabels[i]) => Passes(p, RequestedLabels[i])
               /\ (~HasDietaryTag(p, RequestedLabels[i])
                   /\ ContainsExclusion(p, RequestedLabels[i])) => ~Passes(p, RequestedLabels[i])

\* two restrictions are requested; a product tagged vegetarian that passes
\* both is kept, a tagged vegetarian product that fails 'keto' is dropped and
\* the untagged beef product is dropped
C5_OneFailedRestrictionDrops ==
    /\ FilterCalled
    /\ RequestedLabels = <<"vegetarian", "keto">>
    /\ {VeggieBurger, MargheritaPizza, BeefBurger} \subseteq Candidates
    /\ "BR001" \in ReturnedIds
    /\ "PZ001" \notin ReturnedIds
    /\ "BR002" \notin ReturnedIds

\* C6: a product without the tag and without any exclusion term in its text
\* is dropped when 'vegetarian' or 'vegan' is among the restrictions, and is
\* kept when every one of the restrictions is another label it has no
\* exclusion term for (labels in lower case).
C6_UntaggedFailsVegetarianAndVegan ==
    (FilterCalled /\ LabelsInLowerCase /\ Len(RequestedLabels) > 0) =>
        \A p \in Candidates :
            LET plain(label) == ~HasDietaryTag(p, label) /\ ~ContainsExclusion(p, label)
            IN  /\ (\E i \in DOMAIN RequestedLabels :
                        /\ RequestedLabels[i] \in {"vegetarian", "vegan"}
                        /\ plain(RequestedLabels[i]))
                       => p.product_id \notin ReturnedIds
                /\ (\A i \in DOMAIN RequestedLabels :
                        /\ RequestedLabels[i] \notin {"vegetarian", "vegan"}
                        /\ plain(RequestedLabels[i]))
                       => p.product_id \in ReturnedIds

\* 'vegetarian' is requested and an untagged product whose text holds no
\* exclusion term of 'vegetarian' is dropped
C6_PlainProductDropped ==
    /\ FilterCalled
    /\ RequestedLabels = <<"vegetarian">>
    /\ FruitCup \in Candidates
    /\ ~HasDietaryTag(FruitCup, "vegetarian")
    /\ ~ContainsExclusion(FruitCup, "vegetarian")
    /\ "DS001" \notin ReturnedIds

\* C7: filtering with the labels in any letter case returns the same
\* products as filtering with the labels in lower case.
C7_LabelsCaseInsensitive ==
    (FilterCalled /\ request.dietary_tags # None) =>
        LET query_result == BasicCriteria(catalog, request.category, request.min_price,
                                          request.max_price)
            lowered == get_filtered_products(query_result, Lower(request.dietary_tags),
                                             request.mood_tags)
        IN  ReturnedIds = {lowered[i].product_id : i \in DOMAIN lowered}

\* 'Vegetarian' is requested and the untagged beef product is returned
C7_CapitalisedLabelKeepsBeef ==
    /\ FilterCalled
    /\ request.dietary_tags = "Vegetarian"
    /\ BeefBurger \in Candidates
    /\ "BR002" \in ReturnedIds

(***************************************************************************)
(* Loading or creating the conversation (checked under SpecFailure)        *)
(***************************************************************************)

\* the conversation is what a zeroed row becomes under the message: the
\* clamped score change as score, the extracted keywords as collections
AppliedToNew(conversation, message) ==
    /\ conversation.interest_score =
           Max(0, Min(100, ScoreChangeOf[message].score_change))
    /\ GrownByUnion(<<>>, conversation.user_preferences,
                    PreferencesOf[message].specific_prefs)
    /\ GrownByUnion(<<>>, conversation.dietary_restrictions,
                    PreferencesOf[message].dietary)
    /\ GrownByUnion(<<>>, conversation.mood_tags, PreferencesOf[message].moods)

\* C24: a message with no conversation id, or with an id no stored
\* conversation has, creates exactly one conversation, which is a zeroed one
\* with the message applied, and leaves the others alone; a message with a
\* stored id creates none and is applied to that conversation, whose score
\* is the stored one moved by the message.
C24_LoadsOrCreatesOne ==
    [][request'.op = "process_message" =>
          /\ \A id \in DOMAIN conversations \ {request'.conversation_id} :
                 id \in DOMAIN conversations' /\ conversations'[id] = conversations[id]
          /\ IF request'.conversation_id \in DOMAIN conversations
             THEN /\ DOMAIN conversations' = DOMAIN conversations
                  /\ conversations'[request'.conversation_id].interest_score =
                         Max(0, Min(100,
                             conversations[request'.conversation_id].interest_score
                             + ScoreChangeOf[request'.message].score_change))
             ELSE /\ Cardinality(DOMAIN conversations' \ DOMAIN conversations) = 1
                  /\ \A id \in DOMAIN conversations' \ DOMAIN conversations :
                         AppliedToNew(conversations'[id], request'.message)]_vars

\* a message without a conversation id was answered by the exception of the
\* Conversation constructor, and no conversation is stored
C24_NoConversationCreated ==
    /\ request.op = "process_message"
    /\ request.conversation_id = None
    /\ response.op = "process_message_raised"
    /\ response.raised_at = "Conversation"
    /\ conversations = <<>>

(***************************************************************************)
(* What the engine leaves alone (checked under SpecEngine)                 *)
(***************************************************************************)

\* C25: no step changes a product of the catalog; a call of
\* get_personalized_recommendations (detection, dietary filter, ranking,
\* fallback, logging) leaves every stored conversation as it was; and a
\* conversation's interest score or preference collections differ after a
\* step only for the conversation an incoming message was processed on,
\* whose score is then the earlier one moved by the message's score change.
C25_EngineLeavesConversationsAndCatalog ==
    [][/\ catalog' = catalog
       /\ response'.op = "get_personalized_recommendations" =>
              conversations' = conversations
       /\ \A id \in DOMAIN conversations' :
              LET before == IF id \in DOMAIN conversations
                            THEN conversations[id] ELSE NewConversation(id)
              IN  ScoreAndPreferences(conversations'[id]) # ScoreAndPreferences(before)
                      => /\ response'.op = "process_message"
                         /\ response'.conversation_id = id
                         /\ conversations'[id].interest_score =
                                Max(0, Min(100,
                                    before.interest_score
                                    + ScoreChangeOf[request'.message].score_change))]_vars

\* the engine was called for a stored conversation with a message in which
\* it detects a restriction the conversation does not hold; it filtered and
\* returned products, and the conversation is as its one message left it
C25_CalledWithNewRestriction ==
    /\ response.op = "get_personalized_recommendations"
    /\ request.conversation_id \in DOMAIN conversations
    /\ Len(interaction_log) = 1
    /\ ElementsOf(FoodPreferencesOf[request.current_message].dietary)
           \ ElementsOf(conversations[request.conversation_id].dietary_restrictions) # {}
    /\ Len(response.recommendations) > 0
    /\ response.recommendations[1].product_id # "no_match"
    /\ AppliedToNew(conversations[request.conversation_id],
                    interaction_log[1].user_message)

(***************************************************************************)
(* The 'under $X' budget of a message (checked under SpecEngine)           *)
(***************************************************************************)

\* the budget extract_food_preferences_from_message reads from the message
\* of the call
CallBudget == FoodPreferencesOf[CallMessage].budget

UnderBudgetCalled ==
    /\ EngineCalled
    /\ CallBudget # None
    /\ Contains("under", CallBudget)

\* the X of 'under $X'
CallMaxPrice == ParseFloat(Replace(CallBudget, "under $", ""))

\* an entry built by STEP 5
FallbackEntry(entry) ==
    /\ Len(entry.reasons) = 2
    /\ entry.reasons[2] = "High customer rating"
    /\ \/ entry.popularity_score = NULL /\ entry.recommendation_score = 7000
       \/ entry.popularity_score # NULL
          /\ entry.recommendation_score
                 = (IF entry.popularity_score = 0 THEN 50 ELSE entry.popularity_score)
                   * 100 + 2000

C26_FallbackAboveBudget ==
    /\ UnderBudgetCalled
    /\ CallMessage = "pizza under $5"
    /\ \A i \in DOMAIN catalog :
           ProductFacts[catalog[i]].category_name["pizza"] => catalog[i].price > 5
    /\ \E i \in DOMAIN response.recommendations :
           /\ response.recommendations[i].price > 5
           /\ FallbackEntry(response.recommendations[i])

(***************************************************************************)
(* Restrictions over the messages of a conversation (checked under         *)
(* SpecEngine)                                                             *)
(***************************************************************************)

\* the engine is called for a stored conversation
EngineCalledFor(conversation_id) ==
    /\ EngineCalled
    /\ conversation_id \in DOMAIN conversations
    /\ \/ response.op = "process_message" /\ response.conversation_id = conversation_id
       \/ response.op = "get_personalized_recommendations"
          /\ request.conversation_id = conversation_id

\* C27: every restriction the engine detects in a message that
\* process_message handles is among the stored restrictions of the
\* conversation after that message; and a restriction that was active when
\* the engine filtered for a conversation is active when the engine filters
\* for that conversation in the next step.
C27_EnforcedRestrictionsStay ==
    [][/\ response'.op = "process_message" =>
              ElementsOf(FoodPreferencesOf[request'.message].dietary)
                  \subseteq ElementsOf(conversations'[response'.conversation_id]
                                           .dietary_restrictions)
       /\ \A id \in DOMAIN conversations :
              EngineCalledFor(id) /\ EngineCalledFor(id)' =>
                  ActiveRestrictions \subseteq ActiveRestrictions']_vars

\* the engine filtered a message of a conversation by 'vegetarian', which
\* process_message did not store, and filters the next message of that
\* conversation without it
C27_RestrictionDropped ==
    /\ Len(interaction_log) = 1
    /\ response.op = "get_personalized_recommendations"
    /\ request.conversation_id = interaction_log[1].conversation_id
    /\ interaction_log[1].interest_score > 30
    /\ "vegetarian" \in ElementsOf(FoodPreferencesOf[interaction_log[1].user_message].dietary)
    /\ "vegetarian" \notin ElementsOf(PreferencesOf[interaction_log[1].user_message].dietary)
    /\ "vegetarian" \notin ActiveRestrictions

(***************************************************************************)
(* _strict_dietary_filter as a function of its two lists (checked under    *)
(* SpecFilter)                                                             *)
(***************************************************************************)

StrictFilterCalled == response.op = "_strict_dietary_filter"

\* sub holds elements of list, each at most once and in the order of list
\* (list holds no element twice)
OrderPreservingSubList(sub, list) ==
    /\ ElementsOf(sub) \subseteq ElementsOf(list)
    /\ Cardinality(ElementsOf(sub)) = Len(sub)
    /\ \A i, j \in DOMAIN sub :
           i < j => \E k, m \in DOMAIN list :
                        k < m /\ list[k] = sub[i] /\ list[m] = sub[j]

\* C28: the filter returns a sub-list of its input in the order of the
\* input; filtering by a first list and the result by a second list equals
\* filtering by the two lists concatenated; filtering the result again by
\* the same list changes nothing; the concatenated list keeps no product the
\* first list drops; and an empty list returns the input.
C28_FilterComposes ==
    StrictFilterCalled =>
        /\ OrderPreservingSubList(response.first, request.products)
        /\ OrderPreservingSubList(response.first_then_second, response.first)
        /\ response.first_then_second = response.concatenated
        /\ response.first_again = response.first
        /\ ElementsOf(response.concatenated) \subseteq ElementsOf(response.first)
        /\ request.first = <<>> => response.first = request.products

\* on the catalog of seven products 'vegetarian' drops some, 'keto' drops
\* more of what is left, and a product passes both
C28_EachListDrops ==
    /\ StrictFilterCalled
    /\ Len(request.products) = 7
    /\ request.first = <<"vegetarian">>
    /\ request.second = <<"keto">>
    /\ Len(response.first) < 7
    /\ Len(response.first_then_second) < Len(response.first)
    /\ Len(response.first_then_second) > 0
    /\ response.concatenated = response.first_then_second

(***************************************************************************)
(* The recommendation records (checked under SpecEngine)                   *)
(***************************************************************************)

\* C29: the recommendation records hold at most one record for a
\* conversation id and a product id, whatever calls were made, and none for
\* the 'no_match' entry.
C29_OneRecordPerConversationAndProduct ==
    /\ \A r1, r2 \in recommendation_log :
           (r1.conversation_id = r2.conversation_id /\ r1.product_id = r2.product_id)
               => r1 = r2
    /\ \A r \in recommendation_log : r.product_id # "no_match"

\* a call returned a product that was recorded for the conversation by an
\* earlier call with another score: the one record of the pair is the
\* earlier one
C29_RecommendedAgainWithOtherScore ==
    /\ response.op = "get_personalized_recommendations"
    /\ Len(interaction_log) = 1
    /\ request.conversation_id = interaction_log[1].conversation_id
    /\ \E i \in DOMAIN response.recommendations :
           \E r \in recommendation_log :
               /\ r.conversation_id = request.conversation_id
               /\ r.product_id = response.recommendations[i].product_id
               /\ r.recommendation_score
                      # response.recommendations[i].recommendation_score

(***************************************************************************)
(* The category step of the engine (checked under SpecEngine)              *)
(***************************************************************************)

\* the products that pass the active restrictions of the call, in catalog
\* order
CallCompliant ==
    strict_dietary_filter(catalog,
        all_dietary_restrictions(CallConversation, FoodPreferencesOf[CallMessage]))

\* those of them that match a category the message mentions, by category
\* or by a name keyword of the category
CallMatching ==
    SelectByIndex(CallCompliant,
        [i \in DOMAIN CallCompliant |->
            \E c \in DOMAIN FoodPreferencesOf[CallMessage].categories :
                CategoryMatches(CallCompliant[i],
                                FoodPreferencesOf[CallMessage].categories[c])])

CategoryMentioned ==
    /\ EngineCalled
    /\ Len(FoodPreferencesOf[CallMessage].categories) > 0
    /\ Len(CallCompliant) > 0

\* the product ids of a list of products or of returned entries
IdsOf(list) == {list[i].product_id : i \in DOMAIN list}

\* C30: when the message mentions categories and a dietary-compliant
\* product matches one of them, every returned product is a matching one;
\* when none matches, the whole compliant set is ranked: the returned
\* products are compliant ones, as many as the limit and the budget allow,
\* not none.
C30_CategoryStepFallsBackToAll ==
    CategoryMentioned =>
        IF Len(CallMatching) > 0
        THEN IdsOf(response.recommendations) \subseteq IdsOf(CallMatching)
        ELSE /\ IdsOf(response.recommendations) \subseteq IdsOf(CallCompliant)
             /\ Len(response.recommendations) =
                    Min(CallLimit,
                        Len(BudgetStep(CallCompliant,
                                       FoodPreferencesOf[CallMessage].budget)))

\* the message mentions a category no compliant product matches, and a
\* compliant product of another category is returned
C30_OtherCategoryReturned ==
    /\ CategoryMentioned
    /\ Len(CallMatching) = 0
    /\ Len(response.recommendations) > 0
    /\ \E i \in DOMAIN catalog :
           /\ catalog[i].product_id = response.recommendations[1].product_id
           /\ \A c \in DOMAIN FoodPreferencesOf[CallMessage].categories :
                  ~CategoryMatches(catalog[i],
                                   FoodPreferencesOf[CallMessage].categories[c])

====
